---- MODULE Spec2Model ----
(***************************************************************************)
(* forge-tree: the tree parser (dist/parser.js), the structural validator  *)
(* (src/validator.ts) and the path validator (path-utils.ts).              *)
(*                                                                         *)
(* A JavaScript string is a sequence of one-character strings; the text of *)
(* a tree is such a sequence with "\n" between its lines.  The box-drawing *)
(* glyphs are the characters GV, GB, GC and GH below, the backtick is BT.    *)
(***************************************************************************)
EXTENDS Integers, Sequences, FiniteSets, TLC

\* ------------------------------------------------------------------ bounds

\* the longest input text, in lines
MaxLines == 4
\* the most validatePath calls of one PathValidator session
MaxCalls == 4

\* ------------------------------------------------------------ characters

NL == "\n"
GV == "VERT"
GB == "BRANCH"
GC == "CORNER"
GH == "HORIZ"
BT == "BACKTICK"

WhiteSpace == {" ", "\t"}

IsSpace(c) == c \in WhiteSpace

Min(S) == CHOOSE x \in S : \A y \in S : x <= y

Max(S) == CHOOSE x \in S : \A y \in S : x >= y

\* ---------------------------------------------------------------- strings

\* the number of leading characters of s that are in set C
LeadIn(s, C) ==
  Max({k \in 0..Len(s) : \A i \in 1..k : s[i] \in C})

\* the number of trailing characters of s that are in set C
TrailIn(s, C) ==
  Max({k \in 0..Len(s) : \A i \in (Len(s) - k + 1)..Len(s) : s[i] \in C})

TrimEnd(s) == SubSeq(s, 1, Len(s) - TrailIn(s, WhiteSpace))

TrimStart(s) == SubSeq(s, LeadIn(s, WhiteSpace) + 1, Len(s))

Trim(s) == TrimStart(TrimEnd(s))

StartsWith(s, pre) ==
  Len(s) >= Len(pre) /\ SubSeq(s, 1, Len(pre)) = pre

EndsWith(s, suf) ==
  Len(s) >= Len(suf) /\ SubSeq(s, Len(s) - Len(suf) + 1, Len(s)) = suf

Includes(s, c) == \E i \in 1..Len(s) : s[i] = c

\* the first index >= from at which sub occurs in s, 0 when there is none
IndexOf(s, sub, from) ==
  LET occ == {i \in from..(Len(s) - Len(sub) + 1) :
                SubSeq(s, i, i + Len(sub) - 1) = sub}
  IN IF occ = {} THEN 0 ELSE Min(occ)

\* s.lastIndexOf(c), 1-based, 0 when c is not in s
LastIndexOf(s, c) ==
  LET occ == {i \in 1..Len(s) : s[i] = c}
  IN IF occ = {} THEN 0 ELSE Max(occ)

RECURSIVE JoinWith(_, _)
\* parts.join(sep)
JoinWith(parts, sep) ==
  IF parts = <<>> THEN <<>>
  ELSE IF Len(parts) = 1 THEN parts[1]
  ELSE parts[1] \o <<sep>> \o JoinWith(Tail(parts), sep)

RECURSIVE SplitOn(_, _)
\* s.split(c): the pieces of s between the occurrences of character c
SplitOn(s, c) ==
  LET i == IndexOf(s, <<c>>, 1)
  IN IF i = 0 THEN <<s>>
     ELSE <<SubSeq(s, 1, i - 1)>> \o SplitOn(SubSeq(s, i + 1, Len(s)), c)

RECURSIVE RemoveDelimited(_, _, _)
\* s.replace(/open[\s\S]*?close/g, ''): every shortest open..close stretch,
\* left to right, is removed with all it spans (line breaks included)
RemoveDelimited(s, open, close) ==
  LET i == IndexOf(s, open, 1)
      j == IF i = 0 THEN 0 ELSE IndexOf(s, close, i + Len(open))
  IN IF i = 0 \/ j = 0 THEN s
     ELSE SubSeq(s, 1, i - 1)
          \o RemoveDelimited(SubSeq(s, j + Len(close), Len(s)), open, close)

\* s.replace(/mark.*$/, ''): s cut at the first occurrence of mark
CutAt(s, mark) ==
  LET i == IndexOf(s, mark, 1)
  IN IF i = 0 THEN s ELSE SubSeq(s, 1, i - 1)

\* s.replace(/(?<!:)#.*$/, ''): s cut at the first # that no ":" precedes
CutAtHashNotAfterColon(s) ==
  LET occ == {i \in 1..Len(s) : s[i] = "#" /\ (i = 1 \/ s[i - 1] # ":")}
  IN IF occ = {} THEN s ELSE SubSeq(s, 1, Min(occ) - 1)

\* s with every character of set C replaced by a space
BlankOut(s, C) == [i \in 1..Len(s) |-> IF s[i] \in C THEN " " ELSE s[i]]

PyQuote == <<"\"", "\"", "\"">>
PyApos == <<"'", "'", "'">>
COpen == <<"/", "*">>
CClose == <<"*", "/">>
HashToggles == {<<"#">>, <<"#", " ", "-", "-", "-">>, <<"#", "-", "-", "-">>}


\* ------------------------------------------------- parser: comment stripper

RECURSIVE HashFilter(_, _)
\* the lines.map of removeMultilineComments: a toggle line and every line
\* inside a hash block become ''
HashFilter(ls, inHashComment) ==
  IF ls = <<>> THEN <<>>
  ELSE IF Trim(Head(ls)) \in HashToggles
       THEN <<(<<>>)>> \o HashFilter(Tail(ls), ~inHashComment)
       ELSE <<(IF inHashComment THEN <<>> ELSE Head(ls))>>
            \o HashFilter(Tail(ls), inHashComment)

removeMultilineComments(t) ==
  LET t1 == RemoveDelimited(t, PyQuote, PyQuote)
      t2 == RemoveDelimited(t1, PyApos, PyApos)
      t3 == RemoveDelimited(t2, COpen, CClose)
  IN JoinWith(HashFilter(SplitOn(t3, NL), FALSE), NL)

\* ------------------------------------------------------ parser: the lines

GuideOnlyChars == {GV, GB, GC, "|", "+", BT, GH} \cup WhiteSpace

\* the .map of parseTree: inline comments and trailing white space removed
StripInline(l) ==
  TrimEnd(CutAtHashNotAfterColon(
            CutAt(RemoveDelimited(l, COpen, CClose), <<"/", "/">>)))

\* the .filter of parseTree: blank lines and guide-only lines are skipped
KeepLine(l) ==
  LET trimmed == Trim(l)
  IN /\ Len(trimmed) # 0
     /\ ~(\A i \in 1..Len(trimmed) : trimmed[i] \in GuideOnlyChars)

RECURSIVE MapFilterLines(_)
MapFilterLines(ls) ==
  IF ls = <<>> THEN <<>>
  ELSE LET l == StripInline(Head(ls))
       IN (IF KeepLine(l) THEN <<l>> ELSE <<>>) \o MapFilterLines(Tail(ls))

ParseLines(t) == MapFilterLines(SplitOn(t, NL))

Spaces(n) == [i \in 1..n |-> " "]

detectIndentUnit(ls, c) ==
  IF \E i \in 1..Len(ls) : LeadIn(ls[i], WhiteSpace) > 0
  THEN Spaces(IF c.tabIndentationSize = 0 THEN 2 ELSE c.tabIndentationSize)
  ELSE Spaces(2)

IndentUnit(ls, c) ==
  IF c.detectAsciiGuides THEN detectIndentUnit(ls, c) ELSE Spaces(2)

\* the glyphs of cfg.treeStyle, or of the default style when cfg.treeStyle
\* is not set ({})
StyleGuides(c) ==
  IF c.treeStyle = {} THEN {GV, GB, GC, GH} ELSE c.treeStyle

\* trimmed.replace(/#+\s.*$/, m => " " + m)
KeepHint(s) ==
  LET occ == {i \in 1..Len(s) :
                /\ s[i] = "#"
                /\ \E j \in i..(Len(s) - 1) :
                     (\A k \in i..j : s[k] = "#") /\ IsSpace(s[j + 1])}
  IN IF occ = {} THEN s
     ELSE SubSeq(s, 1, Min(occ) - 1) \o <<" ">> \o SubSeq(s, Min(occ), Len(s))

\* The name of splitDepth is rest.trim(): the first alternation of its comment
\* pattern ends with "any number of slashes", so the pattern matches every rest
\* at index 0, beforeComment is empty and the whole rest is kept.
splitDepth(line, unit, c) ==
  LET t1 == IF c.detectAsciiGuides
            THEN BlankOut(line, StyleGuides(c))
            ELSE BlankOut(BlankOut(line, {"-", "|"}), {"+", BT})
      trimmed == KeepHint(t1)
      treeStart == IF line # <<>> /\ line[1] \in {"-", "+", "|", BT}
                   THEN 1 ELSE 0
      lead == LeadIn(trimmed, WhiteSpace)
      spaces == lead + treeStart
      rest == SubSeq(trimmed, lead + 1, Len(trimmed))
      depth == IF c.detectAsciiGuides
               THEN spaces \div Len(unit)
               ELSE Cardinality({i \in 1..Len(line) : line[i] \in {"-", "|"}})
  IN [depth |-> depth, name |-> Trim(rest)]

\* name.replace(/\/$/, "")
CleanName(name) ==
  IF EndsWith(name, <<"/">>) THEN SubSeq(name, 1, Len(name) - 1) ELSE name

NodeKind(name) ==
  LET kind == IF EndsWith(name, <<"/">>) \/ Includes(name, ".")
              THEN "file" ELSE "dir"
  IN IF kind = "file" /\ ~Includes(CleanName(name), ".") THEN "dir" ELSE kind

\* -------------------------------------------------- parser: tree builder

PopStackGreater(st, depth) ==
  LET keep == {k \in 0..Len(st) :
                 \A i \in (k + 1)..Len(st) : st[i].depth > depth}
  IN SubSeq(st, 1, Min(keep))

\* while (stack.length && stack[stack.length - 1].depth >= depth) stack.pop()
PopStack(st, depth) ==
  LET keep == {k \in 0..Len(st) :
                 \A i \in (k + 1)..Len(st) : st[i].depth >= depth}
  IN SubSeq(st, 1, Min(keep))

NodePathParentName(st, ns, clean) ==
  IF st = <<>> THEN clean
  ELSE ns[st[Len(st)].node].name \o <<"/">> \o clean

\* pathParts = stack.map(item => item.node.name); pathParts.push(clean);
\* node.path = clean for a root, pathParts.join('/') otherwise
NodePath(st, ns, clean) ==
  IF st = <<>> THEN clean
  ELSE JoinWith([k \in 1..Len(st) |-> ns[st[k].node].name] \o <<clean>>, "/")


\* --------------------------------------------------- structural validator

\* a ValidationError: line 0 and path <<>> stand for "not set"
Err(type, msg, line) == [type |-> type, msg |-> msg, line |-> line, path |-> <<>>]

BlockWarning(when, msg, i) ==
  IF when THEN <<Err("warning", msg, i)>> ELSE <<>>

\* One pass of the lines.forEach of validateComments over line i (1-based;
\* the code's idx is i - 1).  st.start is commentStartLine + 1.
CommentStep(ls, i, st) ==
  LET trimmed == Trim(ls[i])
      prevFull == i > 1 /\ Len(Trim(ls[i - 1])) # 0
      nextFull == i < Len(ls) /\ Len(Trim(ls[i + 1])) # 0
      isPy == StartsWith(trimmed, PyQuote) \/ StartsWith(trimmed, PyApos)
      s1 == IF ~isPy THEN st
            ELSE IF ~st.py
            THEN [st EXCEPT !.py = TRUE, !.start = i,
                   !.errors = @ \o BlockWarning(prevFull, "PrecededByEmpty", i)]
            ELSE [st EXCEPT !.py = FALSE,
                   !.errors = @ \o BlockWarning(nextFull, "FollowedByEmpty", i)]
      s2 == IF StartsWith(trimmed, COpen) /\ ~s1.c
            THEN [s1 EXCEPT !.c = TRUE, !.start = i,
                   !.errors = @ \o BlockWarning(prevFull, "PrecededByEmpty", i)]
            ELSE s1
      s3 == IF EndsWith(trimmed, CClose) /\ s2.c
            THEN [s2 EXCEPT !.c = FALSE,
                   !.errors = @ \o BlockWarning(nextFull, "FollowedByEmpty", i)]
            ELSE s2
      s4 == IF trimmed \notin HashToggles THEN s3
            ELSE IF ~s3.hash
            THEN [s3 EXCEPT !.hash = TRUE, !.start = i,
                   !.errors = @ \o BlockWarning(prevFull, "PrecededByEmpty", i)]
            ELSE [s3 EXCEPT !.hash = FALSE,
                   !.errors = @ \o BlockWarning(nextFull, "FollowedByEmpty", i)]
      eof == IF i # Len(ls) THEN <<>>
             ELSE (IF s4.py THEN <<Err("error", "UnclosedPython", s4.start)>>
                   ELSE <<>>)
                  \o (IF s4.c THEN <<Err("error", "UnclosedC", s4.start)>>
                      ELSE <<>>)
                  \o (IF s4.hash THEN <<Err("error", "UnclosedHash", s4.start)>>
                      ELSE <<>>)
  IN [s4 EXCEPT !.errors = @ \o eof]

RECURSIVE CommentScan(_, _, _)
CommentScan(ls, i, st) ==
  IF i > Len(ls) THEN st.errors
  ELSE CommentScan(ls, i + 1, CommentStep(ls, i, st))

validateComments(t) ==
  CommentScan(SplitOn(t, NL), 1,
              [py |-> FALSE, c |-> FALSE, hash |-> FALSE, start |-> 1,
               errors |-> <<>>])

RECURSIVE TrimmedNonBlank(_)
\* text.split(/\r?\n/).map(l => l.trim()).filter(l => l.length > 0)
TrimmedNonBlank(ls) ==
  IF ls = <<>> THEN <<>>
  ELSE (IF Len(Trim(Head(ls))) > 0 THEN <<Trim(Head(ls))>> ELSE <<>>)
       \o TrimmedNonBlank(Tail(ls))

RootMarks == {" ", GV, GB, GC, "-", "|"}

\* the "Check for root node" of validateTree, on the trimmed first line
RootCheck(vl) ==
  IF vl[1][1] \in RootMarks
  THEN <<Err("error", "FirstLineRoot", 1)>> ELSE <<>>

SplitChars == {"-", GV, GB, GC, "|", "+", BT} \cup WhiteSpace

InvalidNameChars == {"<", ">", ":", "\"", "|", "?", "*"}

Letters == {"a", "b", "c", "d", "e", "f", "r", "t", "x", "C"}

\* line.replace(/\/\*.*?\*\//g, '').replace(/\/\/.*$/g, '')
\*     .replace(/#.*$/g, '').trim()
LineWithoutComments(line) ==
  Trim(CutAt(CutAt(RemoveDelimited(line, COpen, CClose), <<"/", "/">>), <<"#">>))

\* the last piece of s.split(/[-│├└|+`\s]+/).filter(Boolean); <<>> stands for
\* undefined (no piece at all)
LastPart(s) ==
  LET e == Len(s) - TrailIn(s, SplitChars)
      starts == {b \in 1..e : \A k \in b..e : s[k] \notin SplitChars}
  IN IF e = 0 THEN <<>> ELSE SubSeq(s, Min(starts), e)

\* whether the forEach of "Check for valid node names" looks at the line
NameChecked(line) ==
  /\ ~(\A k \in 1..Len(line) : line[k] \in {GV, "|"})
  /\ LineWithoutComments(line) # <<>>

IsAbsolute(name) ==
  \/ StartsWith(name, <<"/">>)
  \/ Len(name) >= 3 /\ name[1] \in Letters /\ name[2] = ":" /\ name[3] = "\\"

\* the errors of one line of "Check for valid node names"
NameErrors(line, i) ==
  LET name == LastPart(LineWithoutComments(line))
  IN IF ~NameChecked(line) THEN <<>>
     ELSE (IF name = <<>> THEN <<Err("error", "EmptyName", i)>> ELSE <<>>)
          \o (IF \E k \in 1..Len(name) : name[k] \in InvalidNameChars
              THEN <<Err("error", "InvalidChars", i)>> ELSE <<>>)
          \o (IF IsAbsolute(name) THEN <<Err("error", "Absolute", i)>> ELSE <<>>)

RECURSIVE AllNameErrors(_, _)
AllNameErrors(vl, i) ==
  IF i > Len(vl) THEN <<>>
  ELSE NameErrors(vl[i], i) \o AllNameErrors(vl, i + 1)

\* name.startsWith on an undefined name: validateTree throws a TypeError
NameCheckCrashes(vl) ==
  \E i \in 1..Len(vl) :
    NameChecked(vl[i]) /\ LastPart(LineWithoutComments(vl[i])) = <<>>

TreeChars == {"-", GV, GB, GC, "|", "+", BT}

\* Twice the depth validateTree computes for a line:
\* (spaces[0].length / 2) || treeChars[0].length
LineDepth2(line) ==
  IF LeadIn(line, WhiteSpace) # 0 THEN LeadIn(line, WhiteSpace)
  ELSE 2 * LeadIn(line, TreeChars)

RECURSIVE DepthErrors(_, _, _)
\* the forEach of "Check tree structure"; lastDepth2 is twice lastDepth
DepthErrors(vl, i, lastDepth2) ==
  IF i > Len(vl) THEN <<>>
  ELSE (IF LineDepth2(vl[i]) > lastDepth2 + 2
        THEN <<Err("error", "InvalidIndentation", i)>> ELSE <<>>)
       \o DepthErrors(vl, i + 1, LineDepth2(vl[i]))

RECURSIVE Dfs(_, _)
\* the order in which roots.forEach(checkDuplicates) visits the nodes
Dfs(ns, ids) ==
  IF ids = <<>> THEN <<>>
  ELSE <<Head(ids)>> \o Dfs(ns, ns[Head(ids)].children) \o Dfs(ns, Tail(ids))

RECURSIVE DuplicateErrors(_, _, _)
DuplicateErrors(ns, order, pathMap) ==
  IF order = <<>> THEN <<>>
  ELSE LET p == ns[Head(order)].path
       IN IF p \in pathMap
          THEN <<[type |-> "error", msg |-> "Duplicated", line |-> 0, path |-> p]>>
               \o DuplicateErrors(ns, Tail(order), pathMap)
          ELSE DuplicateErrors(ns, Tail(order), pathMap \cup {p})

FirstDuplicateOnly(ns, rs) ==
  LET all == DuplicateErrors(ns, Dfs(ns, rs), {})
  IN IF all = <<>> THEN <<>> ELSE <<all[1]>>

\* the "Basic duplicate path check" of validateTree
checkDuplicates(ns, rs) == DuplicateErrors(ns, Dfs(ns, rs), {})

MultipleRootsAsError(rs) ==
  IF Len(rs) > 1 THEN <<Err("error", "MultipleRoots", 0)>> ELSE <<>>

\* "Add warnings for potential issues": if (roots.length > 1) errors.push(...)
MultipleRoots(rs) ==
  IF Len(rs) > 1 THEN <<Err("warning", "MultipleRoots", 0)>> ELSE <<>>

\* validateTree(text, roots) as parseTree calls it (no cfg)
validateTree(t, ns, rs) ==
  LET vl == TrimmedNonBlank(SplitOn(t, NL))
  IN validateComments(t)
     \o (IF vl = <<>> THEN <<Err("error", "EmptyTree", 0)>>
         ELSE RootCheck(vl)
              \o AllNameErrors(vl, 1)
              \o DepthErrors(vl, 1, 0)
              \o (IF rs = <<>> THEN <<Err("error", "NoRoots", 0)>> ELSE <<>>)
              \o checkDuplicates(ns, rs)
              \o MultipleRoots(rs))

validateTreeCrashes(t) == NameCheckCrashes(TrimmedNonBlank(SplitOn(t, NL)))

RECURSIVE ErrorsOfType(_, _)
ErrorsOfType(es, type) ==
  IF es = <<>> THEN <<>>
  ELSE (IF Head(es).type = type THEN <<Head(es)>> ELSE <<>>)
       \o ErrorsOfType(Tail(es), type)


\* path.join(dir, p) for a relative p without ".", ".." or doubled slashes
PathJoin(dir, p) == IF p = <<>> THEN dir ELSE dir \o <<"/">> \o p

\* ------------------------------------------------ PathValidator: helpers

LowerCase == <<"a", "b", "c", "d", "e", "f", "g", "h", "n", "r", "t", "u", "l", "x", "i", "s", "v">>
UpperCase == <<"A", "B", "C", "D", "E", "F", "G", "H", "N", "R", "T", "U", "L", "X", "I", "S", "V">>
Digit == <<"0", "1", "2", "3", "4", "5", "6", "7", "8", "9">>

ToUpperChar(c) ==
  IF \E i \in 1..Len(LowerCase) : LowerCase[i] = c
  THEN UpperCase[CHOOSE i \in 1..Len(LowerCase) : LowerCase[i] = c] ELSE c

ToLowerChar(c) ==
  IF \E i \in 1..Len(UpperCase) : UpperCase[i] = c
  THEN LowerCase[CHOOSE i \in 1..Len(UpperCase) : UpperCase[i] = c] ELSE c

ToUpper(s) == [i \in 1..Len(s) |-> ToUpperChar(s[i])]

ToLower(s) == [i \in 1..Len(s) |-> ToLowerChar(s[i])]

Range(f) == {f[i] : i \in DOMAIN f}

\* the characters the default allowedChars, ^[a-zA-Z0-9-_.]+$, lets through
DefaultAllowedChars ==
  Range(LowerCase) \cup Range(UpperCase) \cup Range(Digit) \cup {"-", "_", "."}

RECURSIVE DecimalDigits(_)
\* String(n) for n >= 0
DecimalDigits(n) ==
  IF n < 10 THEN <<Digit[n + 1]>>
  ELSE DecimalDigits(n \div 10) \o <<Digit[(n % 10) + 1]>>

\* s.padStart(width, "0")
PadStart(s, width) ==
  IF Len(s) >= width THEN s ELSE [i \in 1..(width - Len(s)) |-> "0"] \o s

\* the start of the match of /\.[^.]+$/ in s, 0 when there is none
ExtStart(s) ==
  LET k == LastIndexOf(s, ".")
  IN IF k = 0 \/ k = Len(s) THEN 0 ELSE k

\* s.match(/\.[^.]+$/)?.[0] || ""
ExtMatch(s) ==
  IF ExtStart(s) = 0 THEN <<>> ELSE SubSeq(s, ExtStart(s), Len(s))

\* s.replace(/\.[^.]+$/, "")
StripExt(s) ==
  IF ExtStart(s) = 0 THEN s ELSE SubSeq(s, 1, ExtStart(s) - 1)

\* path.extname(name) of node
ExtName(name) ==
  LET k == LastIndexOf(name, ".")
  IN IF k <= 1 \/ name = <<".", ".">> THEN <<>> ELSE SubSeq(name, k, Len(name))

\* pattern.replace(token, by): the first occurrence of the placeholder
ReplaceFirst(pattern, token, by) ==
  LET i == IndexOf(pattern, <<token>>, 1)
  IN IF i = 0 THEN pattern
     ELSE SubSeq(pattern, 1, i - 1) \o by \o SubSeq(pattern, i + 1, Len(pattern))

RECURSIVE CollapseSlashes(_)
\* s.replace(/[\\/]+/g, "/")
CollapseSlashes(s) ==
  IF s = <<>> THEN <<>>
  ELSE LET n == LeadIn(s, {"/", "\\"})
       IN IF n > 0 THEN <<"/">> \o CollapseSlashes(SubSeq(s, n + 1, Len(s)))
          ELSE <<Head(s)>> \o CollapseSlashes(Tail(s))

RECURSIVE ResolveDots(_, _, _)
\* the segment walk of path.normalize (posix)
ResolveDots(segs, acc, isAbs) ==
  IF segs = <<>> THEN acc
  ELSE LET g == Head(segs)
       IN IF g = <<>> \/ g = <<".">> THEN ResolveDots(Tail(segs), acc, isAbs)
          ELSE IF g = <<".", ".">>
          THEN IF acc # <<>> /\ acc[Len(acc)] # <<".", ".">>
               THEN ResolveDots(Tail(segs), SubSeq(acc, 1, Len(acc) - 1), isAbs)
               ELSE IF isAbs THEN ResolveDots(Tail(segs), acc, isAbs)
               ELSE ResolveDots(Tail(segs), Append(acc, g), isAbs)
          ELSE ResolveDots(Tail(segs), Append(acc, g), isAbs)

\* path.normalize(p) (posix)
PosixNormalize(p) ==
  LET isAbs == StartsWith(p, <<"/">>)
      body == JoinWith(ResolveDots(SplitOn(p, "/"), <<>>, isAbs), "/")
      tail == IF EndsWith(p, <<"/">>) /\ body # <<>> THEN <<"/">> ELSE <<>>
  IN IF p = <<>> THEN <<".">>
     ELSE IF isAbs THEN <<"/">> \o body \o tail
     ELSE IF body = <<>> THEN (IF EndsWith(p, <<"/">>) THEN <<".", "/">> ELSE <<".">>)
     ELSE body \o tail

normalizePath(filePath, rl) ==
  LET n1 == IF rl.normalizeSlashes THEN CollapseSlashes(filePath) ELSE filePath
      n2 == IF rl.trimWhitespace
            THEN LET parts == SplitOn(n1, "/")
                 IN JoinWith([i \in 1..Len(parts) |-> Trim(parts[i])], "/")
            ELSE n1
  IN IF rl.resolveRelative THEN CollapseSlashes(PosixNormalize(n2)) ELSE n2

\* ------------------------------------------- PathValidator: the resolver

DefaultMaxDepth == 32
DefaultMaxPathLength == 260
DefaultMaxNameLength == 255
DefaultMaxAttempts == 100
DefaultCounterStart == 1
DefaultCounterPadding == 3

DefaultRenamePattern == <<"{name}", "-", "{n}">>

\* path.substring(0, path.lastIndexOf("/") + 1)
DirOf(path) == SubSeq(path, 1, LastIndexOf(path, "/"))

\* the candidate of renameNumbered for counter i
NumberedCandidate(path, ext, i, sg) ==
  LET dir == DirOf(path)
      baseName == StripExt(SubSeq(path, Len(dir) + 1, Len(path)))
      pattern == ReplaceFirst(sg.renamePattern, "{name}", baseName)
      num == PadStart(DecimalDigits(i), sg.counterPadding)
  IN dir \o ReplaceFirst(pattern, "{n}", num) \o ext

renameNumbered(path, ext, seen, sg) ==
  LET range == sg.counterStart..(sg.counterStart + sg.maxAttempts - 1)
      newPath == [i \in range |-> NumberedCandidate(path, ext, i, sg)]
      free == {i \in range : newPath[i] \notin seen}
  IN IF free = {} THEN path ELSE newPath[Min(free)]

\* new Date().toISOString().replace(/[:.]/g, "-"): one opaque character
Timestamp == <<"TIMESTAMP">>

renameTimestamp(path, ext) ==
  LET dir == DirOf(path)
      baseName == StripExt(SubSeq(path, Len(dir) + 1, Len(path)))
  IN dir \o baseName \o <<"-">> \o Timestamp \o ext

RECURSIVE Concat(_)
\* strings.join("")
Concat(ss) == IF ss = <<>> THEN <<>> ELSE Head(ss) \o Concat(Tail(ss))

\* regex.test(c) of one character against the allowedChars pattern
CharAllowed(c, rl) == c \in rl.allowedChars

\* path.split("").map(c => regex.test(c) ? c : replacement).join("")
replaceInvalidChars(path, replacement, rl) ==
  Concat([i \in 1..Len(path) |->
            IF CharAllowed(path[i], rl) THEN <<path[i]>> ELSE replacement])

\* path.split("").filter(c => regex.test(c)).join("")
stripInvalidChars(path, rl) == SelectSeq(path, LAMBDA c : CharAllowed(c, rl))

\* the characters encodeURIComponent leaves alone
Unreserved ==
  DefaultAllowedChars \cup {"!", "~", "*", "'", "(", ")"}

\* encodeURIComponent of one character, "/" being restored afterwards; the two
\* hex digits of an escape stand as one token behind the percent sign
encodeChar(c) ==
  IF c \in Unreserved \cup {"/"} THEN <<c>>
  ELSE CASE c = " " -> <<"%", "2", "0">>
         [] c = "@" -> <<"%", "4", "0">>
         [] c = "#" -> <<"%", "2", "3">>
         [] OTHER -> <<"%", "X", "X">>

encodePath(path) == Concat([i \in 1..Len(path) |-> encodeChar(path[i])])

transliterateKeepingKey(path, sg) ==
  Concat([i \in 1..Len(path) |->
            IF path[i] \in DOMAIN sg.transliterationMap
               /\ sg.transliterationMap[path[i]] # <<>>
            THEN sg.transliterationMap[path[i]] \o <<path[i]>> ELSE <<path[i]>>])

\* path.split("").map(c => this.strategy.transliterationMap[c] || c).join("")
transliteratePath(path, sg) ==
  Concat([i \in 1..Len(path) |->
            IF path[i] \in DOMAIN sg.transliterationMap
               /\ sg.transliterationMap[path[i]] # <<>>
            THEN sg.transliterationMap[path[i]] ELSE <<path[i]>>])

truncatePathIgnoringExt(path, maxLength, ext) ==
  LET dir == DirOf(path)
      baseName == StripExt(SubSeq(path, Len(dir) + 1, Len(path)))
      available == maxLength - Len(dir)
  IN IF Len(path) <= maxLength THEN path
     ELSE IF available < 1 THEN path
     ELSE dir \o SubSeq(baseName, 1, Min({available, Len(baseName)})) \o ext

truncatePath(path, maxLength, ext) ==
  LET dir == DirOf(path)
      baseName == StripExt(SubSeq(path, Len(dir) + 1, Len(path)))
      available == maxLength - Len(dir) - Len(ext)
  IN IF Len(path) <= maxLength THEN path
     ELSE IF available < 1 THEN path
     ELSE dir \o SubSeq(baseName, 1, Min({available, Len(baseName)})) \o ext

\* the first eight hex digits of the digest, which the model does not compute
HashHex == <<"h", "a", "s", "h", "h", "a", "s", "h">>

hashPath(path, ext) == DirOf(path) \o HashHex \o ext

\* The loop condition reads path, which the loop never assigns: once the path is
\* too long every directory but the first is cut to three characters.
shortenPath(path, maxLength, ext) ==
  LET all == SplitOn(path, "/")
      fileName == all[Len(all)]
      parts == [i \in 1..(Len(all) - 1) |->
                  IF i >= 2 /\ Len(all[i]) > 3 THEN SubSeq(all[i], 1, 3) ELSE all[i]]
      newPath == JoinWith(parts \o <<fileName>>, "/")
  IN IF Len(path) <= maxLength THEN path
     ELSE IF Len(newPath) > maxLength THEN truncatePath(newPath, maxLength, ext)
     ELSE newPath

Repairable == {"longPath", "invalidChars", "duplicatePath", "duplicateName"}

\* the strategy.on... field that handleViolation and resolveConflict read
StrategyOf(code, sg) ==
  CASE code = "longPath" -> sg.onLongPath
    [] code = "invalidChars" -> sg.onInvalidChars
    [] code = "duplicatePath" -> sg.onDuplicatePath
    [] code = "duplicateName" -> sg.onDuplicateName
    [] OTHER -> "error"

\* The two duplicate cases of the switch differ only in 'merge', which returns
\* the path as the default case does.  <<>> is the '' of 'skip'.
resolveConflict(path, code, seen, rl, sg) ==
  LET ext == IF sg.preserveExtension THEN ExtMatch(path) ELSE <<>>
      how == <<code, StrategyOf(code, sg)>>
  IN CASE how \in {<<"duplicatePath", "numbered">>, <<"duplicateName", "numbered">>} ->
            renameNumbered(path, ext, seen, sg)
       [] how \in {<<"duplicatePath", "timestamp">>, <<"duplicateName", "timestamp">>} ->
            renameTimestamp(path, ext)
       [] how \in {<<"duplicatePath", "skip">>, <<"duplicateName", "skip">>} -> <<>>
       [] how = <<"invalidChars", "replace">> ->
            replaceInvalidChars(path, sg.replacementChar, rl)
       [] how = <<"invalidChars", "strip">> -> stripInvalidChars(path, rl)
       [] how = <<"invalidChars", "encode">> -> encodePath(path)
       [] how = <<"invalidChars", "transliterate">> -> transliteratePath(path, sg)
       [] how = <<"longPath", "truncate">> -> truncatePath(path, rl.maxPathLength, ext)
       [] how = <<"longPath", "hash">> -> hashPath(path, ext)
       [] how = <<"longPath", "shorten">> -> shortenPath(path, rl.maxPathLength, ext)
       [] OTHER -> path

\* resolvedPath || path
OrPath(resolvedPath, path) == IF resolvedPath = <<>> THEN path ELSE resolvedPath

handleViolation(code, path, seen, rl, sg) ==
  [type |-> IF StrategyOf(code, sg) = "warn" THEN "warning" ELSE "error",
   code |-> code,
   path |-> path,
   resolvedPath |-> OrPath(IF code \in Repairable
                           THEN resolveConflict(path, code, seen, rl, sg)
                           ELSE <<>>, path)]


\* ------------------------------------------- PathValidator: validatePath

DefaultDisallowedNames ==
  {
    <<"C", "O", "N">>, <<"P", "R", "N">>, <<"A", "U", "X">>,
    <<"N", "U", "L">>, <<"C", "O", "M", "1">>, <<"C", "O", "M", "2">>,
    <<"C", "O", "M", "3">>, <<"C", "O", "M", "4">>, <<"C", "O", "M", "5">>,
    <<"C", "O", "M", "6">>, <<"C", "O", "M", "7">>, <<"C", "O", "M", "8">>,
    <<"C", "O", "M", "9">>, <<"L", "P", "T", "1">>, <<"L", "P", "T", "2">>,
    <<"L", "P", "T", "3">>, <<"L", "P", "T", "4">>, <<"L", "P", "T", "5">>,
    <<"L", "P", "T", "6">>, <<"L", "P", "T", "7">>, <<"L", "P", "T", "8">>,
    <<"L", "P", "T", "9">>
  }

DefaultRules ==
  [maxDepth |-> DefaultMaxDepth, maxPathLength |-> DefaultMaxPathLength,
   maxNameLength |-> DefaultMaxNameLength, allowedChars |-> DefaultAllowedChars,
   disallowedNames |-> DefaultDisallowedNames, enforceCase |-> "any",
   allowDots |-> FALSE, allowSpaces |-> FALSE, requireExtensions |-> FALSE,
   allowedExtensions |-> {}, uniqueNames |-> TRUE, uniquePaths |-> TRUE,
   normalizeSlashes |-> TRUE, trimWhitespace |-> TRUE, resolveRelative |-> FALSE]

DefaultStrategy ==
  [onDuplicatePath |-> "error", onDuplicateName |-> "error",
   onInvalidChars |-> "error", onLongPath |-> "error",
   renamePattern |-> DefaultRenamePattern, replacementChar |-> <<"_">>,
   transliterationMap |-> <<>>, preserveExtension |-> TRUE,
   maxAttempts |-> DefaultMaxAttempts, counterStart |-> DefaultCounterStart,
   counterPadding |-> DefaultCounterPadding]

AddSeenPathIfClean(seen, np, errs) == IF errs = <<>> THEN seen \cup {np} ELSE seen

\* this.seenPaths.add(normalizedPath), whatever the checks before it reported
AddSeenPath(seen, np, errs) == seen \cup {np}

RECURSIVE SelectFirstCode(_)
SelectFirstCode(cs) ==
  IF cs = <<>> THEN <<>>
  ELSE IF Head(cs)[1] THEN <<Head(cs)[2]>> ELSE SelectFirstCode(Tail(cs))

RECURSIVE SelectCodes(_)
\* the codes of a sequence of <<condition, code>> whose condition holds
SelectCodes(cs) ==
  IF cs = <<>> THEN <<>>
  ELSE (IF Head(cs)[1] THEN <<Head(cs)[2]>> ELSE <<>>) \o SelectCodes(Tail(cs))

\* the checks of validatePath up to the unique-path check that report, in order
ChecksBeforeSeen(np, rl, seenP) ==
  LET parts == SplitOn(np, "/")
      name == parts[Len(parts)]
      ext == ToLower(ExtName(name))
  IN SelectCodes(<<
       <<Len(np) > rl.maxPathLength, "longPath">>,
       <<Len(parts) > rl.maxDepth, "maxDepth">>,
       <<Len(name) > rl.maxNameLength, "longName">>,
       <<~(name # <<>> /\ \A i \in 1..Len(name) : name[i] \in rl.allowedChars),
         "invalidChars">>,
       <<ToUpper(name) \in rl.disallowedNames, "reservedName">>,
       <<rl.enforceCase # "any"
         /\ ~(IF rl.enforceCase = "lower" THEN name = ToLower(name)
              ELSE name = ToUpper(name)), "wrongCase">>,
       <<~rl.allowDots /\ Includes(name, ".")
         /\ ~Includes(parts[Len(parts)], "."), "dotsInDir">>,
       <<~rl.allowSpaces /\ \E i \in 1..Len(np) : IsSpace(np[i]), "spacesInPath">>,
       <<rl.requireExtensions /\ ~Includes(name, ".")
         /\ Includes(parts[Len(parts)], "."), "missingExtension">>,
       <<rl.allowedExtensions # {} /\ ext # <<>>
         /\ ext \notin rl.allowedExtensions, "invalidExtension">>,
       <<rl.uniquePaths /\ np \in seenP, "duplicatePath">> >>)

\* the violations of the codes that fired, and the session after the call; a
\* duplicateName violation is resolved after seenPaths.add(normalizedPath)
Report(np, codes, parentDir, name, rl, sg, seenP, seenP2, seenN) ==
  [errors |-> [i \in 1..Len(codes) |->
                 handleViolation(codes[i], np,
                   IF codes[i] = "duplicateName" THEN seenP2 ELSE seenP, rl, sg)],
   seenPaths |-> seenP2,
   seenNames |-> IF rl.uniqueNames THEN seenN \cup {<<parentDir, name>>} ELSE seenN]

\* the unique-path bookkeeping and the unique-name check of validatePath
CheckUnique(np, before, parentDir, name, rl, sg, seenP, seenN) ==
  Report(np,
         before \o (IF rl.uniqueNames /\ <<parentDir, name>> \in seenN
                    THEN <<"duplicateName">> ELSE <<>>),
         parentDir, name, rl, sg, seenP, AddSeenPath(seenP, np, before), seenN)

\* validatePath once normalizedPath is known
ValidateNormalized(np, parts, rl, sg, seenP, seenN) ==
  CheckUnique(np, ChecksBeforeSeen(np, rl, seenP),
              JoinWith(SubSeq(parts, 1, Len(parts) - 1), "/"), parts[Len(parts)],
              rl, sg, seenP, seenN)

SplitNormalized(np, rl, sg, seenP, seenN) ==
  ValidateNormalized(np, SplitOn(np, "/"), rl, sg, seenP, seenN)

\* validatePath(filePath): what it returns and what it leaves in the session
validatePath(filePath, rl, sg, seenP, seenN) ==
  SplitNormalized(normalizePath(filePath, rl), rl, sg, seenP, seenN)

\* ------------------------------------------------------------- the state

VARIABLES
  rules,      \* this.rules
  strategy,   \* this.strategy
  seenPaths,  \* this.seenPaths
  seenNames,  \* this.seenNames, as the set of <<directory, name>> it holds
  calls,      \* the arguments of the validatePath calls since the last reset
  results     \* what each of those calls returned

sessionVars == <<rules, strategy, seenPaths, seenNames, calls, results>>

VARIABLES
  input,     \* the text parseTree is called with
  cfg,       \* the ForgeConfig fields parseTree reads
  pc,        \* where parseTree is
  text,      \* the local text (reassigned by the comment stripper)
  lines,     \* the mapped and filtered lines
  cursor,    \* the index in lines of the next line of the for loop
  stack,     \* the stack of [depth, node]; a node is its index in nodes
  nodes,     \* every node created so far, in creation order
  roots,     \* the roots, in source order
  errors,    \* what validateTree returned
  outcome,   \* "none", "forest" (roots returned) or "throw"
  parsed     \* the forest an earlier parseTree call returned, if any, and the
             \* depths that call computed for its lines

parserVars ==
  <<input, cfg, pc, text, lines, cursor, stack, nodes, roots, errors, outcome,
    parsed>>

\* no earlier call returned a forest
NoForest == [nodes |-> <<>>, roots |-> <<>>, depths |-> <<>>]

VARIABLES
  detector,  \* the Detector runDetector is called with
  handlers,  \* DetectorEventEmitter.handlers: the handlers of each event
  dpc,       \* where runDetector is
  trace,     \* the events emitted and the functions and handlers invoked so far
  retval     \* what runDetector returned: "none", TRUE/FALSE as "true"/"false",
             \* or "rejected" when its promise rejects

detectorVars == <<detector, handlers, dpc, trace, retval>>

VARIABLES
  limit,     \* Cache.limit
  data,      \* Cache.data
  lastOp     \* the last operation called on the Cache, with its argument

cacheVars == <<limit, data, lastOp>>

\* the values of the variables of a component no operation of which runs
IdleDetector == [hasValidate |-> FALSE, isValid |-> TRUE, confirmed |-> TRUE,
                 hasPostProcess |-> FALSE, throws |-> {}]
NoHandlers == [e \in {"init:start", "init:validate", "init:prompt",
                      "init:generate", "init:complete", "init:error"} |-> <<>>]
Undefined == <<"undefined">>
EmptyData == [lastLogFile |-> Undefined, lastStatsFile |-> Undefined,
              recentLogs |-> <<>>, recentStats |-> <<>>,
              lastDirectory |-> Undefined]
NoOp == [op |-> "none", arg |-> <<>>]
DEFAULT_CACHE_LIMIT == 10

Ind(n, s) == Spaces(n) \o s

\* the lines the input texts are made of
ParserLines ==
  { <<"a", "/">>, <<"b">>,
    Ind(2, <<"a">>), Ind(2, <<"b", "/">>),
    Ind(4, <<"a">>), Ind(4, <<"b">>),
    PyQuote, COpen \o <<" ", "x">>, <<"#">> }

ParserTexts ==
  {JoinWith(ls, NL) : ls \in UNION {[1..n -> ParserLines] : n \in 1..MaxLines}}

TargetDir == <<"/", "t">>

\* the target directories parseTree is configured with
TargetDirs == {TargetDir, <<"o">>}

ParserConfigs ==
  { c \in [detectAsciiGuides : {TRUE}, tabIndentationSize : {2},
           treeStyle : {{}}, base : {"unset", "root"},
           targetDir : TargetDirs]
    : c.base = "unset" \/ c.targetDir = TargetDir }

IdleConfig ==
  [detectAsciiGuides |-> TRUE, tabIndentationSize |-> 2,
   treeStyle |-> {}, base |-> "unset", targetDir |-> TargetDir]

ParserInit ==
  /\ input \in ParserTexts
  /\ cfg \in ParserConfigs
  /\ pc = "start"
  /\ text = input
  /\ lines = <<>>
  /\ cursor = 1
  /\ stack = <<>>
  /\ nodes = <<>>
  /\ roots = <<>>
  /\ errors = <<>>
  /\ outcome = "none"
  /\ parsed = NoForest
  /\ detector = IdleDetector
  /\ handlers = NoHandlers
  /\ dpc = "idle"
  /\ trace = <<>>
  /\ retval = "none"
  /\ limit = DEFAULT_CACHE_LIMIT
  /\ data = EmptyData
  /\ lastOp = NoOp
  \* no PathValidator exists while parseTree runs
  /\ rules = DefaultRules
  /\ strategy = DefaultStrategy
  /\ seenPaths = {}
  /\ seenNames = {}
  /\ calls = <<>>
  /\ results = <<>>

\* parser.js line 29
StripComments ==
  /\ pc = "start"
  /\ text' = removeMultilineComments(text)
  /\ pc' = "split"
  /\ UNCHANGED <<parsed, input, cfg, lines, cursor, stack, nodes, roots, errors, outcome>>
  /\ UNCHANGED <<sessionVars, detectorVars, cacheVars>>

\* parser.js lines 30-52
SplitLines ==
  /\ pc = "split"
  /\ lines' = ParseLines(text)
  /\ cursor' = 1
  /\ pc' = "build"
  /\ UNCHANGED <<parsed, input, cfg, text, stack, nodes, roots, errors, outcome>>
  /\ UNCHANGED <<sessionVars, detectorVars, cacheVars>>

\* one turn of the for loop, parser.js lines 53-81
BuildNode ==
  /\ pc = "build"
  /\ cursor <= Len(lines)
  /\ LET sd == splitDepth(lines[cursor], IndentUnit(lines, cfg), cfg)
         clean == CleanName(sd.name)
         st == PopStack(stack, sd.depth)
         id == Len(nodes) + 1
         node == [name |-> clean, path |-> NodePath(st, nodes, clean),
                  kind |-> NodeKind(sd.name), children |-> <<>>]
     IN /\ nodes' = IF st = <<>> THEN Append(nodes, node)
                    ELSE [Append(nodes, node) EXCEPT
                            ![st[Len(st)].node].children = Append(@, id)]
        /\ roots' = IF st = <<>> THEN Append(roots, id) ELSE roots
        /\ stack' = Append(st, [depth |-> sd.depth, node |-> id])
  /\ cursor' = cursor + 1
  /\ UNCHANGED <<parsed, input, cfg, pc, text, lines, errors, outcome>>
  /\ UNCHANGED <<sessionVars, detectorVars, cacheVars>>

\* parser.js line 83; a TypeError of validateTree leaves parseTree at once
Validate ==
  /\ pc = "build"
  /\ cursor > Len(lines)
  /\ IF validateTreeCrashes(text)
     THEN /\ errors' = <<>>
          /\ outcome' = "typeerror"
          /\ pc' = "done"
     ELSE /\ errors' = validateTree(text, nodes, roots)
          /\ outcome' = outcome
          /\ pc' = "validated"
  /\ UNCHANGED <<parsed, input, cfg, text, lines, cursor, stack, nodes, roots>>
  /\ UNCHANGED <<sessionVars, detectorVars, cacheVars>>

\* parser.js lines 84-89
Throw ==
  /\ pc = "validated"
  /\ ErrorsOfType(errors, "error") # <<>>
  /\ outcome' = "throw"
  /\ pc' = "done"
  /\ UNCHANGED <<parsed, input, cfg, text, lines, cursor, stack, nodes, roots, errors>>
  /\ UNCHANGED <<sessionVars, detectorVars, cacheVars>>

\* parser.js lines 90-99
Return ==
  /\ pc = "validated"
  /\ ErrorsOfType(errors, "error") = <<>>
  /\ nodes' = IF cfg.base = "root"
              THEN [i \in DOMAIN nodes |->
                      [nodes[i] EXCEPT !.path = PathJoin(cfg.targetDir, @)]]
              ELSE nodes
  /\ outcome' = "forest"
  /\ pc' = "done"
  /\ UNCHANGED <<parsed, input, cfg, text, lines, cursor, stack, roots, errors>>
  /\ UNCHANGED <<sessionVars, detectorVars, cacheVars>>

ParserNext ==
  \/ StripComments
  \/ SplitLines
  \/ BuildNode
  \/ Validate
  \/ Throw
  \/ Return

\* ------------------------------- parseTree on guide-decorated texts, and
\* ------------------------------- parseTree again on the forest written back

\* the number of lines of a decorated text
MaxStyledLines == 3

\* a treeStyle made of ASCII glyphs: vertical, branch, corner, horizontal
AsciiStyle == {"|", "+", BT, "-"}

\* plain lines, lines with a dotted name, lines decorated with the Unicode
\* guides and with the ASCII guides, a blank line and a line with a "<"
StyledLines ==
  { <<"a", "/">>, <<"b", ".", "c">>,
    Ind(2, <<"a", ".", "b", "/">>), Ind(4, <<"b">>),
    <<GB, GH, " ", "a">>,
    <<GV, " ", " ", GC, GH, " ", "b", ".", "c">>,
    <<"+", "-", " ", "a">>,
    <<"|", " ", " ", BT, "-", " ", "b">>,
    <<>>, Ind(2, <<"a", "<">>) }

StyledTexts ==
  {JoinWith(ls, NL) :
     ls \in UNION {[1..n -> StyledLines] : n \in 1..MaxStyledLines}}

StyledConfigs ==
  { c \in [detectAsciiGuides : {TRUE}, tabIndentationSize : {2},
           treeStyle : {{}, AsciiStyle}, base : {"unset", "root"},
           targetDir : {TargetDir}]
    : c.base = "unset" \/ c.treeStyle = {} }

StyledInit ==
  /\ input \in StyledTexts
  /\ cfg \in StyledConfigs
  /\ pc = "start"
  /\ text = input
  /\ lines = <<>>
  /\ cursor = 1
  /\ stack = <<>>
  /\ nodes = <<>>
  /\ roots = <<>>
  /\ errors = <<>>
  /\ outcome = "none"
  /\ parsed = NoForest
  /\ detector = IdleDetector
  /\ handlers = NoHandlers
  /\ dpc = "idle"
  /\ trace = <<>>
  /\ retval = "none"
  /\ limit = DEFAULT_CACHE_LIMIT
  /\ data = EmptyData
  /\ lastOp = NoOp
  /\ rules = DefaultRules
  /\ strategy = DefaultStrategy
  /\ seenPaths = {}
  /\ seenNames = {}
  /\ calls = <<>>
  /\ results = <<>>

RECURSIVE WriteBack(_, _, _, _)
\* one line per node, in depth-first order: the name behind one unit of
\* indentation per ancestor
WriteBack(ns, ids, ancestors, unit) ==
  IF ids = <<>> THEN <<>>
  ELSE <<Spaces(ancestors * unit) \o ns[Head(ids)].name>>
       \o WriteBack(ns, ns[Head(ids)].children, ancestors + 1, unit)
       \o WriteBack(ns, Tail(ids), ancestors, unit)

\* parseTree called again, on the text that writes the returned forest back
ParseAgain ==
  /\ pc = "done"
  /\ outcome = "forest"
  /\ parsed = NoForest
  /\ parsed' = [nodes |-> nodes, roots |-> roots,
                depths |-> [i \in 1..Len(lines) |->
                              splitDepth(lines[i], IndentUnit(lines, cfg), cfg).depth]]
  /\ input' = JoinWith(WriteBack(nodes, roots, 0, cfg.tabIndentationSize), NL)
  /\ text' = input'
  /\ pc' = "start"
  /\ lines' = <<>>
  /\ cursor' = 1
  /\ stack' = <<>>
  /\ nodes' = <<>>
  /\ roots' = <<>>
  /\ errors' = <<>>
  /\ outcome' = "none"
  /\ UNCHANGED cfg
  /\ UNCHANGED <<sessionVars, detectorVars, cacheVars>>

StyledNext ==
  \/ StripComments
  \/ SplitLines
  \/ BuildNode
  \/ Validate
  \/ Throw
  \/ Return
  \/ ParseAgain

\* ------------------------------- parseTree with guide detection disabled

\* plain lines, lines of the dash dialect and lines with a dash in the name
DashLines ==
  { <<"a", "/">>, Ind(2, <<"b">>), Ind(4, <<"b">>),
    <<"-", " ", "a">>, Ind(2, <<"-", " ", "b">>),
    <<"a", "-", "b">>, Ind(2, <<"a", "-", "b">>) }

DashTexts ==
  {JoinWith(ls, NL) :
     ls \in UNION {[1..n -> DashLines] : n \in 1..MaxStyledLines}}

DashConfigs ==
  [detectAsciiGuides : {FALSE}, tabIndentationSize : {2},
   treeStyle : {{}}, base : {"unset"}, targetDir : {TargetDir}]

DashInit ==
  /\ input \in DashTexts
  /\ cfg \in DashConfigs
  /\ pc = "start"
  /\ text = input
  /\ lines = <<>>
  /\ cursor = 1
  /\ stack = <<>>
  /\ nodes = <<>>
  /\ roots = <<>>
  /\ errors = <<>>
  /\ outcome = "none"
  /\ parsed = NoForest
  /\ detector = IdleDetector
  /\ handlers = NoHandlers
  /\ dpc = "idle"
  /\ trace = <<>>
  /\ retval = "none"
  /\ limit = DEFAULT_CACHE_LIMIT
  /\ data = EmptyData
  /\ lastOp = NoOp
  /\ rules = DefaultRules
  /\ strategy = DefaultStrategy
  /\ seenPaths = {}
  /\ seenNames = {}
  /\ calls = <<>>
  /\ results = <<>>





\* ----------------------------------------------- PathValidator: session

\* the paths validatePath is called with
PVPaths ==
  { <<"r", "/", "f">>, <<"r", "/", "/", "f">>,
    <<"r", "/", "f", "-", "1">>, <<"r", "/", "f", "-", "2">>,
    <<"a", ".", "b", "/", "c">>, <<"r", "/", "f", ".", "t">>,
    <<"r", "/", "g", " ", "h">> }

PVRules ==
  { DefaultRules,
    [DefaultRules EXCEPT !.uniquePaths = FALSE],
    [DefaultRules EXCEPT !.normalizeSlashes = FALSE, !.uniqueNames = FALSE] }

PVStrategies ==
  { DefaultStrategy,
    [DefaultStrategy EXCEPT !.onDuplicatePath = "numbered"],
    [DefaultStrategy EXCEPT !.onDuplicatePath = "numbered",
                            !.counterPadding = 1, !.maxAttempts = 2],
    [DefaultStrategy EXCEPT !.onDuplicatePath = "warn",
                            !.onDuplicateName = "numbered"],
    [DefaultStrategy EXCEPT !.onDuplicatePath = "skip",
                            !.onDuplicateName = "timestamp"] }

\* new PathValidator(rules, strategy)
SessionInit ==
  /\ rules \in PVRules
  /\ strategy \in PVStrategies
  /\ seenPaths = {}
  /\ seenNames = {}
  /\ calls = <<>>
  /\ results = <<>>
  \* no parseTree call is under way
  /\ input = <<>>
  /\ cfg = IdleConfig
  /\ pc = "idle"
  /\ text = <<>>
  /\ lines = <<>>
  /\ cursor = 1
  /\ stack = <<>>
  /\ nodes = <<>>
  /\ roots = <<>>
  /\ errors = <<>>
  /\ outcome = "none"
  /\ parsed = NoForest
  /\ detector = IdleDetector
  /\ handlers = NoHandlers
  /\ dpc = "idle"
  /\ trace = <<>>
  /\ retval = "none"
  /\ limit = DEFAULT_CACHE_LIMIT
  /\ data = EmptyData
  /\ lastOp = NoOp

ReturnedRecordingResolved(p, r) ==
  /\ seenPaths' = r.seenPaths
                     \cup {r.errors[k].resolvedPath : k \in 1..Len(r.errors)}
  /\ seenNames' = r.seenNames
  /\ calls' = Append(calls, p)
  /\ results' = Append(results, r.errors)

\* the call validatePath(p) returned r: the session it left and the histories
Returned(p, r) ==
  /\ seenPaths' = r.seenPaths
  /\ seenNames' = r.seenNames
  /\ calls' = Append(calls, p)
  /\ results' = Append(results, r.errors)

\* a validatePath(p) call
ValidatePath(p) ==
  /\ Len(calls) < MaxCalls
  /\ Returned(p, validatePath(p, rules, strategy, seenPaths, seenNames))
  /\ UNCHANGED <<rules, strategy>>
  /\ UNCHANGED <<parserVars, detectorVars, cacheVars>>

\* reset()
Reset ==
  /\ seenPaths' = {}
  /\ seenNames' = {}
  /\ calls' = <<>>
  /\ results' = <<>>
  /\ UNCHANGED <<rules, strategy>>
  /\ UNCHANGED <<parserVars, detectorVars, cacheVars>>

SessionNext ==
  \/ \E p \in PVPaths : ValidatePath(p)
  \/ Reset


\* ------------------------------------ validateTree with a pathValidation

EAcute == "EACUTE"

\* the nodes validateTree is handed, as <<name, kind>> under directory t or alone
PathNodes ==
  { [name |-> <<"f", "@", ".", "x">>, dir |-> <<"t">>, kind |-> "file"],
    [name |-> <<EAcute, "@">>, dir |-> <<"t">>, kind |-> "dir"],
    [name |-> <<"a", "@">>, dir |-> <<>>, kind |-> "dir"],
    [name |-> <<"a", "b", "c", "d", "e", "f", "g", ".", "x">>, dir |-> <<"t">>,
     kind |-> "file"],
    [name |-> <<"a", "b", "c", "d", "e", "f", ".", "x">>, dir |-> <<"t", "/", "d", "i", "r", "s">>,
     kind |-> "file"],
    [name |-> <<"f", ".", "x">>, dir |-> <<"t", "/", "d", "i", "r", "s", "/", "s", "u", "b", "d">>,
     kind |-> "file"],
    [name |-> <<"c", "c", "c", "c", "c", "c", "c">>, dir |-> <<"a", ".", "b">>,
     kind |-> "dir"],
    [name |-> <<"f", "i", "l", "e">>, dir |-> <<"t">>, kind |-> "file"],
    [name |-> <<"f", ".", "x">>, dir |-> <<"t">>, kind |-> "file"],
    [name |-> <<"v", "1", ".", "2">>, dir |-> <<>>, kind |-> "dir"],
    [name |-> <<"v", "1", ".", "2">>, dir |-> <<"t">>, kind |-> "dir"] }

\* a forest of one node, or of a directory and the node in it
PathForest(n) ==
  IF n.dir = <<>>
  THEN <<[name |-> n.name, path |-> n.name, kind |-> n.kind, children |-> <<>>]>>
  ELSE <<[name |-> n.dir, path |-> n.dir, kind |-> "dir", children |-> <<2>>],
         [name |-> n.name, path |-> n.dir \o <<"/">> \o n.name, kind |-> n.kind,
          children |-> <<>>]>>

\* cfg.pathValidation
\* a directory that holds the same file twice
TwinForest ==
  <<[name |-> <<"t">>, path |-> <<"t">>, kind |-> "dir", children |-> <<2, 3>>],
    [name |-> <<"f", ".", "x">>, path |-> <<"t", "/", "f", ".", "x">>,
     kind |-> "file", children |-> <<>>],
    [name |-> <<"f", ".", "x">>, path |-> <<"t", "/", "f", ".", "x">>,
     kind |-> "file", children |-> <<>>]>>

PathForests == {PathForest(n) : n \in PathNodes} \cup {TwinForest}

TreeRules ==
  { DefaultRules,
    [DefaultRules EXCEPT !.uniquePaths = FALSE, !.uniqueNames = FALSE],
    [DefaultRules EXCEPT !.maxPathLength = 8],
    [DefaultRules EXCEPT !.maxPathLength = 12],
    [DefaultRules EXCEPT !.maxPathLength = 14],
    [DefaultRules EXCEPT !.requireExtensions = TRUE],
    [DefaultRules EXCEPT !.allowDots = TRUE],
    [DefaultRules EXCEPT !.allowedChars = DefaultAllowedChars \ {"."}] }

TransliterationMaps ==
  { (EAcute :> <<"e">>) @@ ("@" :> <<"a", "t">>),
    ("a" :> <<"b">>) @@ ("b" :> <<"c">>),
    ("a" :> <<"b">>) @@ ("b" :> <<"a">>) }

\* cfg.pathConflict
TreeStrategies ==
  { DefaultStrategy,
    [DefaultStrategy EXCEPT !.onDuplicatePath = "warn", !.onDuplicateName = "warn"] }
  \cup { [DefaultStrategy EXCEPT !.onInvalidChars = h] : h \in {"replace", "strip", "encode"} }
  \cup { [DefaultStrategy EXCEPT !.onInvalidChars = "transliterate",
                                 !.transliterationMap = m] : m \in TransliterationMaps }
  \cup { [DefaultStrategy EXCEPT !.onLongPath = h] : h \in {"truncate", "hash", "shorten"} }

\* validateTree(text, roots, cfg) at the path validation, with a new PathValidator
TreePathsInit ==
  /\ rules \in TreeRules
  /\ strategy \in TreeStrategies
  /\ seenPaths = {}
  /\ seenNames = {}
  /\ calls = <<>>
  /\ results = <<>>
  /\ input = <<>>
  /\ cfg = IdleConfig
  /\ pc = "paths"
  /\ text = <<>>
  /\ lines = <<>>
  /\ cursor = 1
  /\ stack = <<>>
  /\ nodes \in PathForests
  /\ roots = <<1>>
  /\ errors = <<>>
  /\ outcome = "none"
  /\ parsed = NoForest
  /\ detector = IdleDetector
  /\ handlers = NoHandlers
  /\ dpc = "idle"
  /\ trace = <<>>
  /\ retval = "none"
  /\ limit = DEFAULT_CACHE_LIMIT
  /\ data = EmptyData
  /\ lastOp = NoOp

\* errors.push(...pathErrors.map(err => ({type, message, context})))
PushPathErrors(pathErrors) ==
  errors' = errors \o [i \in 1..Len(pathErrors) |->
                         [type |-> pathErrors[i].type, msg |-> pathErrors[i].code,
                          line |-> 0, path |-> pathErrors[i].path]]

ValidatedNode(p, r) == Returned(p, r) /\ PushPathErrors(r.errors)

\* validateNode(node) for the next node of the traversal
ValidateNode ==
  /\ pc = "paths"
  /\ cursor <= Len(Dfs(nodes, roots))
  /\ ValidatedNode(nodes[Dfs(nodes, roots)[cursor]].path,
                   validatePath(nodes[Dfs(nodes, roots)[cursor]].path,
                                rules, strategy, seenPaths, seenNames))
  /\ cursor' = cursor + 1
  /\ UNCHANGED <<rules, strategy>>
  /\ UNCHANGED <<parsed, input, cfg, pc, text, lines, stack, nodes, roots, outcome>>
  /\ UNCHANGED <<detectorVars, cacheVars>>

\* validatePath called again with a resolved path the last call returned
ValidateResolved ==
  /\ pc = "paths"
  /\ cursor > Len(Dfs(nodes, roots))
  /\ Len(calls) < MaxCalls
  /\ \E k \in 1..Len(results[Len(results)]) :
       Returned(results[Len(results)][k].resolvedPath,
                validatePath(results[Len(results)][k].resolvedPath,
                             rules, strategy, seenPaths, seenNames))
  /\ UNCHANGED <<rules, strategy>>
  /\ UNCHANGED <<parserVars, detectorVars, cacheVars>>

TreePathsNext ==
  \/ ValidateNode
  \/ ValidateResolved

\* --------------------------------------- DetectorManager.runDetector and
\* --------------------------------------- DetectorEventEmitter.emit

\* the number of handlers registered for one event
MaxHandlers == 2

Events ==
  {"init:start", "init:validate", "init:prompt", "init:generate",
   "init:complete", "init:error"}

Ev(e) == [kind |-> "emit", name |-> e, index |-> 0]
HandlerCall(e, i) == [kind |-> "handler", name |-> e, index |-> i]
FnCall(f) == [kind |-> "call", name |-> f, index |-> 0]

\* emit('init:error', ...): a handler that throws is logged and nothing is
\* emitted again
emitError(hs) ==
  <<Ev("init:error")>>
    \o [i \in 1..Len(hs["init:error"]) |-> HandlerCall("init:error", i)]

invokeHandlerSilently(e, i, hs) == <<HandlerCall(e, i)>>

\* one turn of the for loop of emit: the handler is awaited, and when it throws
\* and the event is not init:error the failure is emitted as init:error
invokeHandler(e, i, hs) ==
  <<HandlerCall(e, i)>>
    \o (IF hs[e][i] = "throws" /\ e # "init:error" THEN emitError(hs) ELSE <<>>)

\* emit(event, data) with valid data: what it adds to the trace
emit(e, hs) ==
  <<Ev(e)>> \o Concat([i \in 1..Len(hs[e]) |-> invokeHandler(e, i, hs)])

\* the steps of a detector that can throw; "actions" is a generate whose result
\* has no actions array, on which validateEventData throws
ThrowPoints ==
  {"preDetect", "validate", "generate", "actions", "postProcess", "onComplete"}

Detectors ==
  { d \in [hasValidate : BOOLEAN, isValid : BOOLEAN, confirmed : BOOLEAN,
           hasPostProcess : BOOLEAN,
           throws : {{}} \cup {{t} : t \in ThrowPoints}
                         \cup {{"generate", "onError"}}]
    : d.hasValidate \/ d.isValid }

\* the handlers registered with on(): none, or MaxHandlers of which the first
\* throws; for init:error also handlers that do not throw
HandlerLists(e) ==
  {<<>>, [i \in 1..MaxHandlers |-> IF i = 1 THEN "throws" ELSE "ok"]}
    \cup (IF e = "init:error" THEN {[i \in 1..MaxHandlers |-> "ok"]} ELSE {})

HandlerSets == {hs \in [Events -> UNION {HandlerLists(e) : e \in Events}] :
                  \A e \in Events : hs[e] \in HandlerLists(e)}

DetectorInit ==
  /\ detector \in Detectors
  /\ handlers \in HandlerSets
  /\ dpc = "start"
  /\ trace = <<>>
  /\ retval = "none"
  /\ limit = DEFAULT_CACHE_LIMIT
  /\ data = EmptyData
  /\ lastOp = NoOp
  /\ input = <<>>
  /\ cfg = IdleConfig
  /\ pc = "idle"
  /\ text = <<>>
  /\ lines = <<>>
  /\ cursor = 1
  /\ stack = <<>>
  /\ nodes = <<>>
  /\ roots = <<>>
  /\ errors = <<>>
  /\ outcome = "none"
  /\ parsed = NoForest
  /\ rules = DefaultRules
  /\ strategy = DefaultStrategy
  /\ seenPaths = {}
  /\ seenNames = {}
  /\ calls = <<>>
  /\ results = <<>>

AlwaysGenerate(confirmed) == "generate"

\* if (!isValid) return false
AfterValidate(isValid) == IF isValid THEN "prompt" ELSE "done"

\* if (!confirmed) return false
AfterPrompt(confirmed) == IF confirmed THEN "generate" ELSE "done"

\* runDetector goes on at position p; at "done" it has returned false
GoOn(p) ==
  /\ dpc' = p
  /\ retval' = IF p = "done" THEN "false" ELSE retval

\* detector-manager.ts lines 70-76
Start ==
  /\ dpc = "start"
  /\ IF "preDetect" \in detector.throws
     THEN trace' = trace /\ GoOn("catch")
     ELSE trace' = trace \o emit("init:start", handlers) /\ GoOn("validate")
  /\ UNCHANGED <<detector, handlers>>
  /\ UNCHANGED <<parserVars, sessionVars, cacheVars>>

\* detector-manager.ts lines 78-85
ValidateStep ==
  /\ dpc = "validate"
  /\ IF ~detector.hasValidate
     THEN trace' = trace /\ GoOn("prompt")
     ELSE IF "validate" \in detector.throws
     THEN trace' = Append(trace, FnCall("validate")) /\ GoOn("catch")
     ELSE /\ trace' = Append(trace, FnCall("validate"))
                        \o emit("init:validate", handlers)
          /\ GoOn(AfterValidate(detector.isValid))
  /\ UNCHANGED <<detector, handlers>>
  /\ UNCHANGED <<parserVars, sessionVars, cacheVars>>

\* detector-manager.ts lines 87-92
Prompt ==
  /\ dpc = "prompt"
  /\ trace' = Append(trace, FnCall("prompt")) \o emit("init:prompt", handlers)
  /\ GoOn(AfterPrompt(detector.confirmed))
  /\ UNCHANGED <<detector, handlers>>
  /\ UNCHANGED <<parserVars, sessionVars, cacheVars>>

\* detector-manager.ts lines 94-102
Generate ==
  /\ dpc = "generate"
  /\ IF detector.throws \cap {"generate", "actions"} # {}
     THEN trace' = Append(trace, FnCall("generate")) /\ GoOn("catch")
     ELSE /\ trace' = Append(trace, FnCall("generate"))
                        \o emit("init:generate", handlers)
          /\ GoOn("postProcess")
  /\ UNCHANGED <<detector, handlers>>
  /\ UNCHANGED <<parserVars, sessionVars, cacheVars>>

\* detector-manager.ts lines 104-109
PostProcess ==
  /\ dpc = "postProcess"
  /\ IF ~detector.hasPostProcess
     THEN trace' = trace /\ GoOn("complete")
     ELSE /\ trace' = Append(trace, FnCall("postProcess"))
          /\ GoOn(IF "postProcess" \in detector.throws THEN "catch" ELSE "complete")
  /\ UNCHANGED <<detector, handlers>>
  /\ UNCHANGED <<parserVars, sessionVars, cacheVars>>

\* detector-manager.ts lines 111-119
Complete ==
  /\ dpc = "complete"
  /\ trace' = trace \o emit("init:complete", handlers)
  /\ IF "onComplete" \in detector.throws
     THEN GoOn("catch")
     ELSE dpc' = "done" /\ retval' = "true"
  /\ UNCHANGED <<detector, handlers>>
  /\ UNCHANGED <<parserVars, sessionVars, cacheVars>>

\* detector-manager.ts lines 120-130; a throwing onError hook rejects the promise
Catch ==
  /\ dpc = "catch"
  /\ trace' = trace \o emit("init:error", handlers)
  /\ dpc' = "done"
  /\ retval' = IF "onError" \in detector.throws THEN "rejected" ELSE "false"
  /\ UNCHANGED <<detector, handlers>>
  /\ UNCHANGED <<parserVars, sessionVars, cacheVars>>

DetectorNext ==
  \/ Start
  \/ ValidateStep
  \/ Prompt
  \/ Generate
  \/ PostProcess
  \/ Complete
  \/ Catch

\* --------------------------------------------------------------- Cache
\* A file path is a string; the cache file save() writes is read by no
\* operation below, so the model tracks this.data and this.limit only.

\* process.cwd()
Cwd == <<"/", "w">>

FileA == <<"a">>
FileB == <<"b">>
\* the paths handed to updateLogFile and updateStatsFile: relative ones and
\* an absolute one under the current directory
Files == {FileA, FileB, Cwd \o <<"/">> \o FileA}

\* the directories handed to updateDirectory or found in an imported file
Dirs == {<<"d">>}

\* the segments of an absolute path
Segments(p) == SelectSeq(SplitOn(p, "/"), LAMBDA x : x # <<>>)

\* the number of leading segments two segment lists share
CommonSegments(f, t) ==
  Max({n \in 0..Min({Len(f), Len(t)}) : SubSeq(f, 1, n) = SubSeq(t, 1, n)})

\* path.relative(from, to) for two absolute paths without "." or ".."
relative(from, to) ==
  JoinWith([i \in 1..(Len(Segments(from)) - CommonSegments(Segments(from), Segments(to)))
              |-> <<".", ".">>]
           \o SubSeq(Segments(to),
                     CommonSegments(Segments(from), Segments(to)) + 1,
                     Len(Segments(to))),
           "/")

\* the path updateLogFile and updateStatsFile store for filePath
StoredPath(filePath) ==
  IF StartsWith(filePath, Cwd) THEN relative(Cwd, filePath) ELSE filePath

\* list.slice(0, end): a negative end counts from the end of the list
SliceTo(list, end) ==
  SubSeq(list, 1, IF end < 0 THEN Max({Len(list) + end, 0})
                  ELSE Min({end, Len(list)}))

\* [filePath, ...recent.filter(f => f !== filePath)].slice(0, this.limit)
Recent(filePath, recent, lim) ==
  SliceTo(<<filePath>> \o SelectSeq(recent, LAMBDA f : f # filePath), lim)

\* the limit option of the constructor, absent or a number
OptionLimits == {[given |-> FALSE, limit |-> 0]}
                  \cup {[given |-> TRUE, limit |-> l] : l \in {0, 1, 2}}

\* options.limit || DEFAULT_CACHE_LIMIT
LimitOf(o) == IF o.given /\ o.limit # 0 THEN o.limit ELSE DEFAULT_CACHE_LIMIT

\* the limits handed to setLimit
SetLimits == {-1, 0, 1, 2}

\* what import finds at inputPath: nothing it can read or parse, a JSON
\* value that is no object, or an object whose recentLogs / recentStats are
\* arrays or not and whose lastDirectory is a string or not
NoImport == [kind |-> "unreadable", hasLogs |-> FALSE, logs |-> <<>>,
             hasStats |-> FALSE, stats |-> <<>>, hasDir |-> FALSE, dir |-> <<>>]
Imports ==
  {NoImport,
   [NoImport EXCEPT !.kind = "scalar"],
   [NoImport EXCEPT !.kind = "object"],
   [NoImport EXCEPT !.kind = "object", !.hasLogs = TRUE, !.logs = <<FileA, FileB>>,
                    !.hasDir = TRUE, !.dir = <<"d">>],
   [NoImport EXCEPT !.kind = "object", !.hasLogs = TRUE, !.logs = <<FileA, FileA>>,
                    !.hasStats = TRUE, !.stats = <<FileB, FileA>>],
   [NoImport EXCEPT !.kind = "object", !.hasLogs = TRUE, !.logs = <<>>,
                    !.hasStats = TRUE, !.stats = <<FileB, FileB, FileA>>]}

\* new Cache(options)
CacheInit ==
  /\ limit \in {LimitOf(o) : o \in OptionLimits}
  /\ data = EmptyData
  /\ lastOp = NoOp
  /\ detector = IdleDetector
  /\ handlers = NoHandlers
  /\ dpc = "idle"
  /\ trace = <<>>
  /\ retval = "none"
  /\ input = <<>>
  /\ cfg = IdleConfig
  /\ pc = "idle"
  /\ text = <<>>
  /\ lines = <<>>
  /\ cursor = 1
  /\ stack = <<>>
  /\ nodes = <<>>
  /\ roots = <<>>
  /\ errors = <<>>
  /\ outcome = "none"
  /\ parsed = NoForest
  /\ rules = DefaultRules
  /\ strategy = DefaultStrategy
  /\ seenPaths = {}
  /\ seenNames = {}
  /\ calls = <<>>
  /\ results = <<>>

updateLogFile ==
  \E filePath \in Files :
    /\ data' = [data EXCEPT
                  !.lastLogFile = StoredPath(filePath),
                  !.recentLogs = Recent(StoredPath(filePath), @, limit)]
    /\ lastOp' = [op |-> "updateLogFile", arg |-> filePath]
    /\ UNCHANGED limit
    /\ UNCHANGED <<parserVars, sessionVars, detectorVars>>

updateStatsFile ==
  \E filePath \in Files :
    /\ data' = [data EXCEPT
                  !.lastStatsFile = StoredPath(filePath),
                  !.recentStats = Recent(StoredPath(filePath), @, limit)]
    /\ lastOp' = [op |-> "updateStatsFile", arg |-> filePath]
    /\ UNCHANGED limit
    /\ UNCHANGED <<parserVars, sessionVars, detectorVars>>

updateDirectory ==
  \E dir \in Dirs :
    /\ data' = [data EXCEPT !.lastDirectory = dir]
    /\ lastOp' = [op |-> "updateDirectory", arg |-> dir]
    /\ UNCHANGED limit
    /\ UNCHANGED <<parserVars, sessionVars, detectorVars>>

\* cleanup keeps the entries checkFile finds on disk
cleanup ==
  \E existing \in SUBSET {FileA, FileB} :
    /\ data' = [data EXCEPT
                  !.recentLogs = SelectSeq(@, LAMBDA f : f \in existing),
                  !.recentStats = SelectSeq(@, LAMBDA f : f \in existing)]
    /\ lastOp' = [op |-> "cleanup", arg |-> <<>>]
    /\ UNCHANGED limit
    /\ UNCHANGED <<parserVars, sessionVars, detectorVars>>

clear ==
  /\ data' = EmptyData
  /\ lastOp' = [op |-> "clear", arg |-> <<>>]
  /\ UNCHANGED limit
  /\ UNCHANGED <<parserVars, sessionVars, detectorVars>>

\* import: an unreadable file throws and leaves the data alone
import ==
  \E imported \in Imports :
    /\ data' = IF imported.kind # "object" THEN data
               ELSE [data EXCEPT
                       !.recentLogs = IF imported.hasLogs THEN imported.logs ELSE @,
                       !.recentStats = IF imported.hasStats THEN imported.stats ELSE @,
                       !.lastDirectory = IF imported.hasDir THEN imported.dir ELSE @]
    /\ lastOp' = [op |-> "import", arg |-> <<>>]
    /\ UNCHANGED limit
    /\ UNCHANGED <<parserVars, sessionVars, detectorVars>>

setLimit ==
  \E newLimit \in SetLimits :
    /\ limit' = newLimit
    /\ data' = [data EXCEPT
                  !.recentLogs = IF Len(@) > newLimit THEN SliceTo(@, newLimit) ELSE @,
                  !.recentStats = IF Len(@) > newLimit THEN SliceTo(@, newLimit) ELSE @]
    /\ lastOp' = [op |-> "setLimit", arg |-> <<>>]
    /\ UNCHANGED <<parserVars, sessionVars, detectorVars>>

CacheNext ==
  \/ updateLogFile
  \/ updateStatsFile
  \/ updateDirectory
  \/ cleanup
  \/ clear
  \/ import
  \/ setLimit

vars == <<parserVars, sessionVars, detectorVars, cacheVars>>

\* validateTree's path validation of a bounded forest, and validatePath on
\* what it resolved
SpecTreePaths == TreePathsInit /\ [][TreePathsNext]_vars

\* parseTree on a guide-decorated text, then on the forest written back
SpecStyled == StyledInit /\ [][StyledNext]_vars

\* one parseTree call with cfg.detectAsciiGuides off
SpecDash == DashInit /\ [][ParserNext]_vars

\* one runDetector call
SpecDetector == DetectorInit /\ [][DetectorNext]_vars

\* one Cache and the operations called on it
SpecCache == CacheInit /\ [][CacheNext]_vars

\* one parseTree call on a bounded text
SpecParser == ParserInit /\ [][ParserNext]_vars

\* one PathValidator and the calls made on it
SpecSession == SessionInit /\ [][SessionNext]_vars


\* =================================================================== properties

\* the depth parseTree computed for the i-th kept line (the line of node i)
DepthOfLine(i) == splitDepth(lines[i], IndentUnit(lines, cfg), cfg).depth

\* the nodes that hold node i among their children
ParentsOf(i) ==
  {j \in 1..Len(nodes) : \E k \in 1..Len(nodes[j].children) : nodes[j].children[k] = i}

IsRoot(i) == \E k \in 1..Len(roots) : roots[k] = i

\* C1: in every forest parseTree returns without pathNormalization.base = "root",
\* a root has path = name and every other node has path = parent.path + "/" + name.
C1_PathIsParentPathJoinName ==
  (pc = "done" /\ outcome = "forest" /\ cfg.base # "root") =>
    /\ \A k \in 1..Len(roots) : nodes[roots[k]].path = nodes[roots[k]].name
    /\ \A j \in 1..Len(nodes) : \A k \in 1..Len(nodes[j].children) :
         LET child == nodes[nodes[j].children[k]]
         IN child.path = nodes[j].path \o <<"/">> \o child.name

\* a returned forest with a node three levels deep
C1_Witness ==
  /\ pc = "done" /\ outcome = "forest" /\ cfg.base # "root"
  /\ \E i, j \in 1..Len(nodes) :
       /\ nodes[i].children # <<>>
       /\ nodes[i].children[1] = j
       /\ nodes[j].children # <<>>
       /\ IsRoot(i)

\* C2: the parent of line i is the last line before it of strictly smaller
\* depth, and line i is a root when there is none; so two consecutive lines of
\* equal depth are siblings.
C2_ParentIsLastShallowerLine ==
  \A i \in 1..Len(nodes) :
    LET shallower == {j \in 1..(i - 1) : DepthOfLine(j) < DepthOfLine(i)}
    IN IF shallower = {}
       THEN IsRoot(i) /\ ParentsOf(i) = {}
       ELSE ~IsRoot(i) /\ ParentsOf(i) = {Max(shallower)}

\* four lines of depths 0, 1, 1, 2 followed the build: two equal-depth
\* neighbours, and a line whose parent is not the first line
C2_Witness ==
  /\ pc = "done"
  /\ Len(nodes) = 4
  /\ DepthOfLine(1) = 0 /\ DepthOfLine(2) = 1
  /\ DepthOfLine(3) = 1 /\ DepthOfLine(4) = 2
  /\ ParentsOf(3) = {1}
  /\ ParentsOf(4) = {3}

HasError(msg) == \E k \in 1..Len(errors) : errors[k].msg = msg

\* C3: when the depth of some line exceeds the depth of the line before it by
\* more than one, validateTree reports 'Invalid indentation' and parseTree throws.
C3_DepthJumpIsRejected ==
  (/\ pc = "done"
   /\ \E i \in 2..Len(lines) : DepthOfLine(i) > DepthOfLine(i - 1) + 1)
  => (outcome = "throw" /\ HasError("InvalidIndentation"))

\* the first line of the input that is not blank, <<>> when all are
FirstNonBlank(t) ==
  LET ls == SplitOn(t, NL)
      full == {i \in 1..Len(ls) : Trim(ls[i]) # <<>>}
  IN IF full = {} THEN <<>> ELSE ls[Min(full)]

GuideGlyphs == {GV, GB, GC, GH, "|", "+", BT}

\* C4: when the first non-blank line of the input is indented or begins with a
\* guide glyph, validateTree reports 'First line must be a root node without
\* indentation.' and parseTree throws.
C4_IndentedFirstLineIsRejected ==
  (/\ pc = "done"
   /\ FirstNonBlank(input) # <<>>
   /\ FirstNonBlank(input)[1] \in WhiteSpace \cup GuideGlyphs)
  => (outcome = "throw" /\ HasError("FirstLineRoot"))

\* the nodes, in source order, whose path an earlier node already has
LaterOccurrences ==
  SelectSeq([i \in 1..Len(nodes) |-> i],
            LAMBDA i : \E j \in 1..(i - 1) : nodes[j].path = nodes[i].path)

DuplicateReports == SelectSeq(errors, LAMBDA e : e.msg = "Duplicated")

BlockAfter(st, l, i) ==
  LET t == Trim(l)
  IN CASE st[1] = "none" ->
            (CASE StartsWith(t, PyQuote) /\ IndexOf(t, PyQuote, 4) = 0 -> <<"py", i>>
               [] StartsWith(t, PyApos) /\ IndexOf(t, PyApos, 4) = 0 -> <<"py'", i>>
               [] IndexOf(t, COpen, 1) # 0
                  /\ IndexOf(t, CClose, IndexOf(t, COpen, 1) + 2) = 0 -> <<"c", i>>
               [] t \in HashToggles -> <<"hash", i>>
               [] OTHER -> st)
       [] st[1] = "py" -> IF IndexOf(t, PyQuote, 1) # 0 THEN <<"none", 0>> ELSE st
       [] st[1] = "py'" -> IF IndexOf(t, PyApos, 1) # 0 THEN <<"none", 0>> ELSE st
       [] st[1] = "c" -> IF IndexOf(t, CClose, 1) # 0 THEN <<"none", 0>> ELSE st
       [] st[1] = "hash" -> IF t \in HashToggles THEN <<"none", 0>> ELSE st

RECURSIVE BlockScan(_, _, _)
BlockScan(ls, i, st) ==
  IF i > Len(ls) THEN st ELSE BlockScan(ls, i + 1, BlockAfter(st, ls[i], i))

\* the line on which the block left open at the end of t opened, 0 if none is
UnclosedBlockLine(t) == BlockScan(SplitOn(t, NL), 1, <<"none", 0>>)[2]

UnclosedMessages == {"UnclosedPython", "UnclosedC", "UnclosedHash"}

\* C6: when a block comment is opened and never closed, parseTree throws a
\* structural error that carries the 1-based input line on which it opened.
C6_UnclosedBlockIsReportedAtItsLine ==
  (pc = "done" /\ UnclosedBlockLine(input) # 0)
  => /\ outcome = "throw"
     /\ \E k \in 1..Len(errors) :
          /\ errors[k].msg \in UnclosedMessages
          /\ errors[k].line = UnclosedBlockLine(input)

\* the state of the reference scan after the first i lines of t
BlockStateAt(t, i) == BlockScan(SubSeq(SplitOn(t, NL), 1, i), 1, <<"none", 0>>)

\* C7: the comment stripper keeps the number of lines, and a line that lies
\* outside every block comment stays at its line number.
C7_StripperKeepsLineNumbers ==
  pc \notin {"start", "idle"} =>
    LET inl == SplitOn(input, NL)
        outl == SplitOn(text, NL)
    IN /\ Len(outl) = Len(inl)
       /\ \A k \in 1..Len(inl) :
            (BlockStateAt(input, k - 1)[1] = "none"
             /\ BlockStateAt(input, k)[1] = "none") => outl[k] = inl[k]


\* the normalized path of the j-th validatePath call since the last reset
NormCall(j) == normalizePath(calls[j], rules)

\* the duplicatePath violations the j-th call returned
DupReport(j) == SelectSeq(results[j], LAMBDA e : e.code = "duplicatePath")

\* the paths validated before the j-th call
SeenBefore(j) == {NormCall(i) : i \in 1..(j - 1)}

\* C8: with the numbered strategy, validating one path k+1 times resolves the
\* k duplicates with the counters counterStart, counterStart + 1, ..., so the
\* resolved paths are pairwise distinct.
C8_CountersIncrease ==
  (/\ rules.uniquePaths
   /\ strategy.onDuplicatePath = "numbered"
   /\ Len(calls) <= strategy.maxAttempts + 1
   /\ \A j \in 1..Len(calls) : calls[j] = calls[1])
  => \A j \in 2..Len(calls) :
       /\ Len(DupReport(j)) = 1
       /\ DupReport(j)[1].resolvedPath =
            NumberedCandidate(NormCall(j), ExtMatch(NormCall(j)),
                              strategy.counterStart + j - 2, strategy)
       /\ \A i \in 2..(j - 1) :
            DupReport(i)[1].resolvedPath # DupReport(j)[1].resolvedPath

\* dir + renamePattern({name}, {n}) + extension, the extension being that of
\* the last segment, for the smallest counter whose path is not in seen
NumberedName(np, seen, sg) ==
  LET dir == DirOf(np)
      last == SubSeq(np, Len(dir) + 1, Len(np))
      named(i) ==
        dir \o ReplaceFirst(ReplaceFirst(sg.renamePattern, "{name}", StripExt(last)),
                            "{n}", PadStart(DecimalDigits(i), sg.counterPadding))
            \o ExtMatch(last)
      free == {i \in sg.counterStart..(sg.counterStart + sg.maxAttempts - 1) :
                 named(i) \notin seen}
  IN IF free = {} THEN np ELSE named(Min(free))

\* C9: a duplicate path under the numbered strategy resolves to directory +
\* renamePattern + extension for the smallest free counter of the range, and to
\* the original path when every counter of the range is taken.
C9_SmallestFreeCounter ==
  (rules.uniquePaths /\ strategy.onDuplicatePath = "numbered")
  => \A j \in 1..Len(calls) :
       DupReport(j) # <<>> =>
         DupReport(j)[1].resolvedPath = NumberedName(NormCall(j), SeenBefore(j), strategy)

\* C10: with uniquePaths on, validatePath reports duplicatePath exactly when
\* the same normalized path was validated since the last reset, and every
\* validated path is in seenPaths whatever the call reported.
C10_DuplicateIffSeen ==
  rules.uniquePaths =>
    /\ \A j \in 1..Len(calls) :
         (DupReport(j) # <<>>) <=> (NormCall(j) \in SeenBefore(j))
    /\ seenPaths = {NormCall(j) : j \in 1..Len(calls)}

\* a path with other violations, validated a second time
C10_Witness ==
  /\ rules.uniquePaths
  /\ Len(calls) >= 2
  /\ results[1] # <<>>
  /\ DupReport(1) = <<>>
  /\ NormCall(2) = NormCall(1)
  /\ DupReport(2) # <<>>


\* the violations of one code that the j-th call returned
Reports(j, code) == SelectSeq(results[j], LAMBDA e : e.code = code)

\* the extension the long-path strategies are handed
PreservedExt(path) == IF strategy.preserveExtension THEN ExtMatch(path) ELSE <<>>

\* maxPathLength minus directory prefix length minus preserved extension length
Available(path) == rules.maxPathLength - Len(DirOf(path)) - Len(PreservedExt(path))

RECURSIVE ReachFrom(_, _, _)
\* the keys of map m reached from the keys S in at most n replacement steps
ReachFrom(m, S, n) ==
  IF n = 0 THEN S
  ELSE ReachFrom(m, S \cup {c \in DOMAIN m : \E k \in S : c \in Range(m[k])}, n - 1)

\* no key of the map leads back to itself through the replacements
Acyclic(m) ==
  \A k \in DOMAIN m :
    k \notin ReachFrom(m, {c \in DOMAIN m : c \in Range(m[k])}, Cardinality(DOMAIN m))

\* no character of a replacement is a key that the map changes
ReplacementsAreFixed(m) ==
  \A k \in DOMAIN m : \A c \in Range(m[k]) :
    c \notin DOMAIN m \/ m[c] = <<>> \/ m[c] = <<c>>

\* the j-th call was handed what transliterate made of the call before it
AppliedToOwnOutput(j) ==
  /\ strategy.onInvalidChars = "transliterate"
  /\ Reports(j - 1, "invalidChars") # <<>>
  /\ calls[j] = Reports(j - 1, "invalidChars")[1].resolvedPath

\* what the j-th call made of its path: the transliteration when the name still
\* has invalid characters, the path itself otherwise
Transliterated(j) ==
  IF Reports(j, "invalidChars") # <<>>
  THEN Reports(j, "invalidChars")[1].resolvedPath ELSE NormCall(j)

\* C12 as stated: for a map without a cycle, transliterate applied to its own
\* output returns that output.
C12_IdempotentWithoutCycle ==
  Acyclic(strategy.transliterationMap) =>
    \A j \in 2..Len(calls) : AppliedToOwnOutput(j) => Transliterated(j) = calls[j]

\* C12: for a map in which no character of a replacement is a key the map
\* changes, transliterate applied to its own output returns that output.
C12_IdempotentWhenReplacementsAreFixed ==
  ReplacementsAreFixed(strategy.transliterationMap) =>
    \A j \in 2..Len(calls) : AppliedToOwnOutput(j) => Transliterated(j) = calls[j]

\* transliterate changed a path and ran again on what it returned
C12_Witness ==
  /\ ReplacementsAreFixed(strategy.transliterationMap)
  /\ Len(calls) >= 3
  /\ AppliedToOwnOutput(3)
  /\ calls[3] # calls[2]
  /\ Reports(3, "invalidChars") # <<>>

\* the name of path with every disallowed character replaced by r, the
\* directory prefix and the extension left as they are
RepairedName(path, r) ==
  LET dir == DirOf(path)
      last == SubSeq(path, Len(dir) + 1, Len(path))
  IN dir \o replaceInvalidChars(StripExt(last), r, rules) \o ExtMatch(last)

\* C13: under "replace" ("strip") the resolved path of an invalidChars violation
\* keeps the directory prefix, the separators and the extension, and has every
\* disallowed character of the name replaced by replacementChar (removed).
C13_OnlyTheNameIsRepaired ==
  \A j \in 1..Len(calls) : \A k \in 1..Len(Reports(j, "invalidChars")) :
    LET v == Reports(j, "invalidChars")[k]
    IN /\ strategy.onInvalidChars = "replace"
            => v.resolvedPath = RepairedName(v.path, strategy.replacementChar)
       /\ strategy.onInvalidChars = "strip"
            => v.resolvedPath = RepairedName(v.path, <<>>)

\* the last segment of the j-th validated path
LastSegment(j) == SubSeq(NormCall(j), Len(DirOf(NormCall(j))) + 1, Len(NormCall(j)))

\* C14: with requireExtensions, validatePath reports missingExtension exactly
\* for the paths whose final segment contains no ".".
C14_MissingExtensionIsReported ==
  rules.requireExtensions =>
    \A j \in 1..Len(calls) :
      (Reports(j, "missingExtension") # <<>>) <=> ~Includes(LastSegment(j), ".")

\* C15: with allowDots off, validating the path of a directory node whose name
\* contains "." reports dotsInDir.
C15_DotsInDirIsReported ==
  (pc = "paths" /\ ~rules.allowDots) =>
    \A j \in 1..Min({Len(calls), Len(Dfs(nodes, roots))}) :
      LET node == nodes[Dfs(nodes, roots)[j]]
      IN (node.kind = "dir" /\ Includes(node.name, "."))
           => Reports(j, "dotsInDir") # <<>>

\* the first parseTree call has finished and returned its roots
FirstForest == pc = "done" /\ outcome = "forest" /\ parsed = NoForest

\* C17: in every returned forest a node has kind "dir" if and only if it has
\* at least one child or its source line ended with "/" (node i is built from
\* lines[i]).
C17_DirIffChildrenOrSlash ==
  FirstForest =>
    \A i \in DOMAIN nodes :
      nodes[i].kind = "dir"
        <=> (nodes[i].children # <<>> \/ EndsWith(lines[i], <<"/">>))

\* the line with every configured guide glyph replaced by a space
PlainLine(l) == BlankOut(l, StyleGuides(cfg))

\* the first kept line is a root written without indentation and guides
StartsAtRoot ==
  /\ lines # <<>>
  /\ lines[1][1] \notin WhiteSpace \cup StyleGuides(cfg)

\* C16: with guide detection on, the depth of a line equals the depth of the
\* same line with every configured guide glyph replaced by a space, and a
\* guide-decorated tree is returned as a forest exactly when its plain-indented
\* equivalent is.
C16_GuidesCountAsSpaces ==
  (cfg.detectAsciiGuides /\ parsed = NoForest) =>
    /\ pc \in {"build", "validated", "done"} =>
         \A i \in 1..Len(lines) :
           splitDepth(lines[i], IndentUnit(lines, cfg), cfg).depth
             = splitDepth(PlainLine(lines[i]), IndentUnit(lines, cfg), cfg).depth
    /\ (pc = "validated" /\ StartsAtRoot) =>
         (ErrorsOfType(errors, "error") = <<>>
            <=> ErrorsOfType(validateTree(PlainLine(text), nodes, roots),
                             "error") = <<>>)

\* the depths of a well-formed tree: a root first, then at most one level
\* deeper from one line to the next
WellFormedDepths(d) ==
  /\ d # <<>>
  /\ d[1] = 0
  /\ \A i \in 2..Len(d) : d[i] <= d[i - 1] + 1

\* parseTree has finished on the text that writes back the forest of a
\* well-formed input
WrittenBackParsed ==
  pc = "done" /\ parsed # NoForest /\ WellFormedDepths(parsed.depths)

\* C18: for every well-formed input, writing each node of the parsed forest
\* back as one line (name indented by one unit per ancestor, depth-first) and
\* parsing that text again yields a forest with the same shape, names, sibling
\* order and paths.
C18_WrittenBackParsesTheSame ==
  WrittenBackParsed =>
    /\ outcome = "forest"
    /\ roots = parsed.roots
    /\ Len(nodes) = Len(parsed.nodes)
    /\ \A i \in DOMAIN nodes :
         /\ nodes[i].name = parsed.nodes[i].name
         /\ nodes[i].path = parsed.nodes[i].path
         /\ nodes[i].children = parsed.nodes[i].children

\* the entries of errors about the number of roots
RootsEntries == {k \in 1..Len(errors) : errors[k].msg = "MultipleRoots"}

InputLines == SplitOn(input, NL)

\* the name validateTree checks on the line has a reserved character
OffendingName(l) ==
  \E k \in 1..Len(LastPart(Trim(l))) : LastPart(Trim(l))[k] \in InvalidNameChars

\* C20: when parseTree throws, the failure lists every offending line, and each
\* entry carries the 1-based number the line has in the input text, also when
\* blank lines precede it: the lines reported for reserved characters are
\* exactly the input lines whose name has one.
C20_EntriesCarryInputLineNumbers ==
  (pc = "done" /\ outcome = "throw" /\ parsed = NoForest) =>
    {errors[k].line : k \in {j \in 1..Len(errors) : errors[j].msg = "InvalidChars"}}
      = {i \in 1..Len(InputLines) : OffendingName(InputLines[i])}

\* C28: after each line the tree builder has processed, the depths on the stack
\* increase strictly from bottom to top and the stack holds exactly the
\* ancestor chain, root first, of the node created for that line, ending with
\* that node.
C28_StackIsTheAncestorChain ==
  (pc = "build" /\ nodes # <<>>) =>
    /\ stack # <<>>
    /\ \A k \in 1..(Len(stack) - 1) : stack[k].depth < stack[k + 1].depth
    /\ stack[Len(stack)].node = Len(nodes)
    /\ IsRoot(stack[1].node)
    /\ \A k \in 2..Len(stack) : ParentsOf(stack[k].node) = {stack[k - 1].node}

\* a line has been processed that popped an entry and was pushed on its parent
C28_Witness ==
  /\ pc = "build"
  /\ Len(nodes) = 3
  /\ Len(stack) = 2
  /\ ParentsOf(2) = {1}
  /\ ParentsOf(3) = {1}

\* the first character of the line that is not white space
FirstMark(l) == l[LeadIn(l, WhiteSpace) + 1]

\* C27: with guide detection disabled, a line that has no dash/pipe prefix gets
\* its depth from its leading white space alone: a dash or pipe inside the name
\* does not change it, and a tree indented with spaces only is nested by its
\* indentation.
C27_DepthFromPrefixOrIndentation ==
  (~cfg.detectAsciiGuides /\ pc \in {"build", "validated", "done"}) =>
    \A i \in 1..Len(lines) :
      FirstMark(lines[i]) \notin {"-", "|"}
        => DepthOfLine(i) = LeadIn(lines[i], WhiteSpace) \div cfg.tabIndentationSize

\* the order in which the checks of validatePath are listed
CodeOrder ==
  <<"longPath", "maxDepth", "longName", "invalidChars", "reservedName",
    "wrongCase", "dotsInDir", "spacesInPath", "missingExtension",
    "invalidExtension", "duplicatePath", "duplicateName">>

Rank(code) == CHOOSE k \in 1..Len(CodeOrder) : CodeOrder[k] = code

\* the directory and name under which the j-th call is recorded
DirAndName(j) ==
  <<SubSeq(NormCall(j), 1, Len(DirOf(NormCall(j))) - 1), LastSegment(j)>>

IsValidatePathStep == Len(calls') = Len(calls) + 1

\* what the call of the step was recorded under
NewPath == normalizePath(calls'[Len(calls')], rules)
NewDirAndName ==
  <<SubSeq(NewPath, 1, Len(DirOf(NewPath)) - 1),
    SubSeq(NewPath, Len(DirOf(NewPath)) + 1, Len(NewPath))>>

RECURSIVE ShortenedDirs(_, _, _, _)
\* the directory segments after cutting, from segment i on and from left to
\* right, each segment longer than 3 characters to 3, until the path fits
ShortenedDirs(dirs, i, fileName, maxLength) ==
  IF i > Len(dirs) \/ Len(JoinWith(dirs \o <<fileName>>, "/")) <= maxLength
  THEN dirs
  ELSE ShortenedDirs([dirs EXCEPT ![i] = IF Len(@) > 3 THEN SubSeq(@, 1, 3) ELSE @],
                     i + 1, fileName, maxLength)

\* the path with its intermediate directories cut one at a time
ShortenedStepwise(path, maxLength) ==
  LET all == SplitOn(path, "/")
  IN JoinWith(ShortenedDirs(SubSeq(all, 1, Len(all) - 1), 2, all[Len(all)], maxLength)
                \o <<all[Len(all)]>>, "/")

\* C25: shorten cuts the intermediate directory segments longer than 3
\* characters to 3 one at a time from left to right, stops at the first segment
\* after which the path fits maxPathLength and leaves the later ones untouched;
\* only a path still too long after all of them has its file name truncated.
C25_ShortenStopsWhenThePathFits ==
  strategy.onLongPath = "shorten" =>
    \A j \in 1..Len(calls) : \A k \in 1..Len(Reports(j, "longPath")) :
      LET v == Reports(j, "longPath")[k]
          stepwise == ShortenedStepwise(v.path, rules.maxPathLength)
      IN v.resolvedPath
           = IF Len(stepwise) > rules.maxPathLength
             THEN truncatePath(stepwise, rules.maxPathLength, PreservedExt(v.path))
             ELSE stepwise

\* validateTree has validated the path of every node
AllPathsValidated == pc = "paths" /\ cursor > Len(Dfs(nodes, roots))

\* two nodes of the forest have the same path
HasRawDuplicate ==
  \E i, j \in 1..Len(nodes) : i # j /\ nodes[i].path = nodes[j].path

\* C26: validateTree reports a raw duplicate path as an error also when a
\* path-validation config is supplied, whatever it says: two nodes with the
\* same path produce an entry of type 'error' about the duplicate.
C26_RawDuplicateIsAlwaysAnError ==
  (AllPathsValidated /\ HasRawDuplicate) =>
    \E k \in 1..Len(errors) :
      /\ errors[k].type = "error"
      /\ errors[k].msg \in {"Duplicated", "duplicatePath", "duplicateName"}

\* the events of a run in the order the documentation lists them
PhaseOrder ==
  <<"init:start", "init:validate", "init:prompt", "init:generate", "init:complete">>

PhaseRank(e) == CHOOSE k \in 1..Len(PhaseOrder) : PhaseOrder[k] = e

\* the events emitted so far other than init:error, in order of emission
PhaseEvents ==
  SelectSeq(trace, LAMBDA x : x.kind = "emit" /\ x.name # "init:error")

Emitted(e) == \E k \in 1..Len(trace) : trace[k] = Ev(e)

Called(f) == \E k \in 1..Len(trace) : trace[k] = FnCall(f)

\* the positions of the trace at which e was emitted, f was called
EmittedAt(e) == {k \in 1..Len(trace) : trace[k] = Ev(e)}
CalledAt(f) == {k \in 1..Len(trace) : trace[k] = FnCall(f)}

C21_WitnessDeclined ==
  /\ dpc = "done"
  /\ retval = "false"
  /\ ~detector.confirmed
  /\ Emitted("init:prompt")

\* how many entries of the trace equal x
Count(x) == Cardinality({k \in 1..Len(trace) : trace[k] = x})

\* C22: when a handler throws during emit, the remaining handlers of the event
\* are still invoked (every emission invokes every handler of its event once),
\* the failure is emitted as init:error right away unless the event is
\* init:error, emit does not reject (runDetector reaches its catch block only
\* through a throwing step of the detector), and an emission of init:error
\* ends even when its handlers throw.
C22_ThrowingHandlerIsIsolated ==
  /\ \A e \in Events : \A i \in 1..Len(handlers[e]) :
       Count(HandlerCall(e, i)) = Count(Ev(e))
  /\ \A k \in 1..Len(trace) :
       (trace[k].kind = "handler" /\ handlers[trace[k].name][trace[k].index] = "throws")
         => IF trace[k].name # "init:error"
            THEN /\ k < Len(trace)
                 /\ trace[k + 1] = Ev("init:error")
                 /\ \A i \in 1..Len(handlers["init:error"]) :
                      /\ k + 1 + i <= Len(trace)
                      /\ trace[k + 1 + i] = HandlerCall("init:error", i)
            ELSE k = Len(trace) \/ trace[k + 1] # Ev("init:error")
  /\ dpc = "catch" => detector.throws # {}
  /\ (dpc = "done" /\ detector.throws = {} /\ detector.isValid /\ detector.confirmed)
       => retval = "true"

\* the first init:start handler threw, the failure was emitted as init:error
\* to handlers of which the first threw too, the second init:start handler was
\* still invoked, and the run went on to the end
C22_Witness ==
  /\ dpc = "done"
  /\ retval = "true"
  /\ handlers["init:start"] # <<>>
  /\ handlers["init:start"][1] = "throws"
  /\ handlers["init:error"] # <<>>
  /\ handlers["init:error"][1] = "throws"
  /\ Len(trace) >= 6
  /\ trace[2] = HandlerCall("init:start", 1)
  /\ trace[3] = Ev("init:error")
  /\ trace[4] = HandlerCall("init:error", 1)
  /\ trace[5] = HandlerCall("init:error", 2)
  /\ trace[6] = HandlerCall("init:start", 2)

\* C29: in a single runDetector call init:complete and init:error are never
\* both emitted, and the call returns true only if no init:error event was
\* emitted during it, errors thrown by event handlers included.
C29_CompleteExcludesError ==
  /\ ~(Emitted("init:complete") /\ Emitted("init:error"))
  /\ (dpc = "done" /\ retval = "true") => ~Emitted("init:error")

\* the entries of a list are pairwise different
NoDuplicates(list) ==
  \A i, j \in 1..Len(list) : list[i] = list[j] => i = j

\* C30: after any sequence of updateLogFile, updateStatsFile, setLimit,
\* cleanup, clear and import on a Cache, recentLogs and recentStats each
\* hold at most `limit` entries and no entry twice, and right after
\* updateLogFile(f) the entry f is first in recentLogs and is lastLogFile.
C30_RecentListsBoundedAndDistinct ==
  /\ Len(data.recentLogs) <= limit
  /\ Len(data.recentStats) <= limit
  /\ NoDuplicates(data.recentLogs)
  /\ NoDuplicates(data.recentStats)
  /\ lastOp.op = "updateLogFile"
       => /\ data.recentLogs # <<>>
          /\ data.recentLogs[1] = lastOp.arg
          /\ data.lastLogFile = lastOp.arg

====
